---- MODULE Spec2Model ----
(***************************************************************************)
(* andy-coin: the in-memory balance ledger (guild_balances) and the guild  *)
(* configuration store with its reset-vote state machine (guild_configs),  *)
(* as implemented by DataInner in src/src/data.rs and called from          *)
(* src/src/commands/*.rs.                                                  *)
(*                                                                         *)
(* Both stores are DashMaps.  A DashMap reference (Ref / RefMut) holds the *)
(* read / write lock of the shard of its key until it is dropped; the lock *)
(* is not reentrant.  Which shard of guild_configs a guild key hashes to   *)
(* is fixed when the store is built (shard); guild_balances, whose         *)
(* references are never held while waiting for one of the same map, is     *)
(* modelled with every key in a shard of its own.                          *)
(*                                                                         *)
(* Tasks are concurrently running command invocations.  A step of the      *)
(* model is what one task does between two points where another task can   *)
(* observe or change the shared maps.  Time is counted in minutes.         *)
(***************************************************************************)
EXTENDS Integers, Sequences, FiniteSets, TLC

\* ------------------------------------------------------------------ bounds
Tasks == {"t1", "t2"}
Guilds == {1, 2}
VoteGuilds == {1}
LedgerGuilds == {1}
Users == {1, 2}
Amounts == {1, 2}
Jumps == {60}
MaxTicks == 1
MaxBalance == 3
MaxVoteBalance == 1
MaxTally == 50
MaxOverdraft == 2
MaxLimit == 3

\* ------------------------------------------------------------- Option<T>
None == {}
Some(x) == {x}
Unwrap(o) == CHOOSE x \in o : TRUE

\* ------------------------------------------------------- chrono::Duration
MinutesPerHour == 60
Hours(h) == h * MinutesPerHour
Minutes(m) == m

\* ------------------------------------------------------------ error texts
NoActiveVote == "No vote is active in this server"
VoteAlreadyActive == "A vote is already active in this server"
CooldownInEffect == "A vote was recently completed. Please wait for the cooldown period to end"
VoteEnded == "The vote has ended"

\* ---------------------------------------------------------------- records
DefaultVoteConfig ==
    [cooldown_hours |-> 24, duration_minutes |-> 30,
     min_votes |-> 10, majority_percentage |-> 70]

DefaultVoteStatus ==
    [active |-> FALSE, start_time |-> None, end_time |-> None,
     initiator_id |-> None, yes_votes |-> << >>, no_votes |-> << >>,
     last_vote_time |-> None]

NewGuildConfig(g, role, vc) ==
    [guild_id |-> g, giver_role_id |-> role, vote_config |-> vc,
     vote_status |-> DefaultVoteStatus]

\* The vote configurations an administrator sets in the model.
ConfigChoices ==
    { [cooldown_hours |-> 1, duration_minutes |-> 1,
       min_votes |-> 1, majority_percentage |-> 50] }

\* The vote configurations set where the end of a vote is looked at: with and
\* without a cooldown, a quorum of 1 with a majority of 50 percent or a
\* quorum of 2 with a majority of 100 percent.
EndConfigs ==
    { [cooldown_hours |-> c, duration_minutes |-> 1,
       min_votes |-> q[1], majority_percentage |-> q[2]] :
         c \in {0, 1}, q \in {<<1, 50>>, <<2, 100>>} }

VARIABLES
    guild_balances,   \* guild id -> (user id -> balance), a partial map
    guild_configs,    \* guild id -> GuildConfig, a partial map
    now,              \* chrono::Utc::now(), in minutes
    ticks,            \* how often the clock has advanced
    shard,            \* guild -> the shard of guild_configs its key hashes to
    pc,               \* task -> where the task is in its call
    call,             \* task -> the locals of the call in progress
    cfg_w,            \* guild -> tasks holding a RefMut into guild_configs
    cfg_r,            \* guild -> tasks holding a Ref into guild_configs
    bal_w,            \* guild -> tasks holding a RefMut into guild_balances
    last,             \* the step that led to the current state
    hist              \* guild -> history of its votes (observation only)

vars == <<guild_balances, guild_configs, now, ticks, shard, pc, call,
          cfg_w, cfg_r, bal_w, last, hist>>

\* ------------------------------------------------------------------- maps
Has(m, k) == k \in DOMAIN m
Get(m, k) == IF k \in DOMAIN m THEN Some(m[k]) ELSE None
Insert(m, k, v) == (k :> v) @@ m
EmptyMap == << >>

\* ------------------------------------------------------------------ locks
SameShard(g) == {h \in Guilds : shard[h] = shard[g]}
CfgWriteFree(g) == \A h \in SameShard(g) : cfg_w[h] = {} /\ cfg_r[h] = {}
CfgReadFree(g) == \A h \in SameShard(g) : cfg_w[h] = {}
BalFree(g) == bal_w[g] = {}

\* --------------------------------------------------------- local state
\* The options of a /vote_admin config request (vote.rs lines 237-241), none
\* of them supplied.
NoRequest ==
    [cooldown_hours |-> None, duration_minutes |-> None,
     min_votes |-> None, majority_percentage |-> None]

\* The locals of a call.  Those of a command: the options it was given
\* (request), the vote_config it read and updated (vote_config), and whether
\* it has changed the store and not saved it since (unsaved).
NoCall ==
    [op |-> "", guild |-> 0, user |-> 0, amount |-> 0, vote_yes |-> FALSE,
     ret_to |-> "", prev |-> 0, raced |-> FALSE,
     request |-> NoRequest, vote_config |-> DefaultVoteConfig,
     unsaved |-> FALSE]

\* The history of a guild: the vote_config in force when its current vote
\* was started (start_cfg), how often that vote was ended (ends) and the
\* balances cleared for it (clears), when the last vote ended if none was
\* started since (ended_at), the balances the ledger calls on the guild
\* would have left had they run one at a time (seq), and for each user the
\* sum of the amounts credited less the sum of the amounts debited since the
\* entry was last absent (net).
NoHist ==
    [start_cfg |-> None, ends |-> 0, clears |-> 0, ended_at |-> None,
     seq |-> [u \in Users |-> 0], net |-> [u \in Users |-> 0]]

\* What a step leaves in `last`: the operation and, for a call that returns,
\* its result.  A vote operation leaves res, val (the end time) and passed,
\* and whether a start_vote of another task succeeded on the same guild
\* while it ran, with no vote ended since (raced).  A ledger operation
\* leaves its key, the amount, the new balance it returns (val) and the
\* previous balance it logs (prev).
NoEvent ==
    [op |-> "", guild |-> 0, user |-> 0, amount |-> 0, prev |-> 0,
     res |-> "", val |-> 0, passed |-> FALSE, raced |-> FALSE]

VoteEvent(op, t, g, res, val, passed) ==
    [NoEvent EXCEPT !.op = op, !.guild = g, !.res = res, !.val = val,
                    !.passed = passed, !.raced = call[t].raced]

LedgerEvent(op, t, res, val) ==
    [NoEvent EXCEPT !.op = op, !.guild = call[t].guild, !.user = call[t].user,
                    !.amount = call[t].amount, !.prev = call[t].prev,
                    !.res = res, !.val = val]

\* The new store, but for the shards of its keys.
NewStore ==
    /\ guild_balances = EmptyMap
    /\ guild_configs = EmptyMap
    /\ now = 0
    /\ ticks = 0
    /\ pc = [t \in Tasks |-> "idle"]
    /\ call = [t \in Tasks |-> NoCall]
    /\ cfg_w = [g \in Guilds |-> {}]
    /\ cfg_r = [g \in Guilds |-> {}]
    /\ bal_w = [g \in Guilds |-> {}]
    /\ last = [NoEvent EXCEPT !.op = "init"]
    /\ hist = [g \in Guilds |-> NoHist]

\* Every guild key in a shard of its own.
Init == NewStore /\ shard = [g \in Guilds |-> g]

\* A call of task t returns: the task is idle again.
Return(t, ev) ==
    /\ pc' = [pc EXCEPT ![t] = "idle"]
    /\ last' = ev

\* The clock advances.
Tick(d) ==
    /\ ticks < MaxTicks
    /\ now' = now + d
    /\ ticks' = ticks + 1
    /\ last' = [NoEvent EXCEPT !.op = "tick"]
    /\ UNCHANGED <<guild_balances, guild_configs, shard, pc, call, cfg_w,
                   cfg_r, bal_w, hist>>


\* ------------------------------------------------------ set_vote_config
\* set_vote_config_entry replacing the whole entry.
set_vote_config_entry_replace(configs, g, vc) ==
    Insert(configs, g, NewGuildConfig(g, None, vc))

\* and_modify replaces vote_config only; or_insert_with creates the entry.
set_vote_config_entry(configs, g, vc) ==
    IF Has(configs, g)
    THEN [configs EXCEPT ![g].vote_config = vc]
    ELSE Insert(configs, g, NewGuildConfig(g, None, vc))

set_vote_config(t, g, vc) ==
    /\ pc[t] = "idle"
    /\ CfgWriteFree(g)
    /\ guild_configs' = set_vote_config_entry(guild_configs, g, vc)
    /\ Return(t, VoteEvent("set_vote_config", t, g, "Ok", 0, FALSE))
    /\ UNCHANGED <<guild_balances, now, ticks, shard, call, cfg_w, cfg_r, bal_w, hist>>

\* ------------------------------------------------------ get_vote_status
\* Lines 555-560: the vote_status of the entry, or a default one.
vote_status_or_default(configs, g) ==
    IF Has(configs, g) THEN configs[g].vote_status ELSE DefaultVoteStatus

get_vote_status(t, g) ==
    /\ pc[t] = "idle"
    /\ CfgReadFree(g)
    /\ Return(t, VoteEvent("get_vote_status", t, g, "Ok",
                           vote_status_or_default(guild_configs, g), FALSE))
    /\ UNCHANGED <<guild_balances, guild_configs, now, ticks, shard, call, cfg_w,
                   cfg_r, bal_w, hist>>

\* ------------------------------------------------------ get_vote_config
\* get_vote_config returning the config of ConfigChoices for a guild
\* without an entry.
vote_config_or_choice(configs, g) ==
    IF Has(configs, g) THEN configs[g].vote_config
    ELSE CHOOSE vc \in ConfigChoices : TRUE

\* Lines 533-538: the vote_config of the entry, or the default one.
vote_config_or_default(configs, g) ==
    IF Has(configs, g) THEN configs[g].vote_config ELSE DefaultVoteConfig

get_vote_config(t, g) ==
    /\ pc[t] = "idle"
    /\ CfgReadFree(g)
    /\ Return(t, VoteEvent("get_vote_config", t, g, "Ok",
                           vote_config_or_default(guild_configs, g), FALSE))
    /\ UNCHANGED <<guild_balances, guild_configs, now, ticks, shard, call, cfg_w,
                   cfg_r, bal_w, hist>>

\* ------------------------------------------------------- set_giver_role
\* set_giver_role_entry replacing the whole entry.
set_giver_role_entry_replace(configs, g, role) ==
    Insert(configs, g, NewGuildConfig(g, role, DefaultVoteConfig))

\* Lines 479-487: and_modify replaces giver_role_id only; or_insert_with
\* creates the entry with the default vote_config and vote_status.
set_giver_role_entry(configs, g, role) ==
    IF Has(configs, g)
    THEN [configs EXCEPT ![g].giver_role_id = role]
    ELSE Insert(configs, g, NewGuildConfig(g, role, DefaultVoteConfig))

\* set_giver_role (lines 476-488); role is an Option.
set_giver_role(t, g, role) ==
    /\ pc[t] = "idle"
    /\ CfgWriteFree(g)
    /\ guild_configs' = set_giver_role_entry(guild_configs, g, role)
    /\ Return(t, VoteEvent("set_giver_role", t, g, "Ok", 0, FALSE))
    /\ UNCHANGED <<guild_balances, now, ticks, shard, call, cfg_w, cfg_r, bal_w, hist>>

\* get_giver_role (lines 491-495): the role of the entry, None without one.
get_giver_role(t, g) ==
    /\ pc[t] = "idle"
    /\ CfgReadFree(g)
    /\ Return(t, VoteEvent("get_giver_role", t, g, "Ok",
                           IF Has(guild_configs, g)
                           THEN guild_configs[g].giver_role_id ELSE None,
                           FALSE))
    /\ UNCHANGED <<guild_balances, guild_configs, now, ticks, shard, call, cfg_w,
                   cfg_r, bal_w, hist>>

\* ----------------------------------------------------------- start_vote
\* Lines 582-616, run with the RefMut of the guild's entry held.
start_vote_checked(config, initiator, t_now) ==
    IF config.vote_status.active
    THEN [res |-> VoteAlreadyActive, val |-> 0, cfg |-> config]
    ELSE IF /\ config.vote_status.last_vote_time # None
            /\ t_now < Unwrap(config.vote_status.last_vote_time)
                         + Hours(config.vote_config.cooldown_hours)
    THEN [res |-> CooldownInEffect, val |-> 0, cfg |-> config]
    ELSE LET end_time == t_now + Minutes(config.vote_config.duration_minutes)
         IN [res |-> "Ok", val |-> end_time,
             cfg |-> [config EXCEPT !.vote_status =
                        [active |-> TRUE,
                         start_time |-> Some(t_now),
                         end_time |-> Some(end_time),
                         initiator_id |-> Some(initiator),
                         yes_votes |-> <<initiator>>,
                         no_votes |-> << >>,
                         last_vote_time |-> None]]]

HistStarted(h, vc) ==
    [h EXCEPT !.start_cfg = Some(vc), !.ends = 0, !.clears = 0,
              !.ended_at = None]

\* The critical section of start_vote on an existing entry, and the return.
StartVoteFinish(t, g, u) ==
    LET r == start_vote_checked(guild_configs[g], u, now) IN
    /\ guild_configs' = [guild_configs EXCEPT ![g] = r.cfg]
    /\ hist' = IF r.res = "Ok"
               THEN [hist EXCEPT ![g] = HistStarted(hist[g], r.cfg.vote_config)]
               ELSE hist
    /\ call' = [s \in Tasks |->
                  IF s = t THEN NoCall
                  ELSE IF /\ r.res = "Ok"
                          /\ pc[s] \in {"start_vote_insert", "start_vote_get_mut"}
                          /\ call[s].guild = g
                  THEN [call[s] EXCEPT !.raced = TRUE]
                  ELSE call[s]]
    /\ Return(t, VoteEvent("start_vote", t, g, r.res, r.val, FALSE))

\* The entry that start_vote inserts when get_mut found none (lines 572-578).
start_vote_insert_default(configs, g) ==
    Insert(configs, g, NewGuildConfig(g, None, DefaultVoteConfig))

\* Line 568: get_mut.  Some: the rest of the call runs under that RefMut.
\* None: the lock is released and the call goes on to insert a default entry.
start_vote(t, g, u) ==
    /\ pc[t] = "idle"
    /\ CfgWriteFree(g)
    /\ IF Has(guild_configs, g)
       THEN /\ StartVoteFinish(t, g, u)
       ELSE /\ pc' = [pc EXCEPT ![t] = "start_vote_insert"]
            /\ call' = [call EXCEPT ![t] =
                          [NoCall EXCEPT !.op = "start_vote", !.guild = g,
                                         !.user = u]]
            /\ last' = VoteEvent("start_vote:none", t, g, "", 0, FALSE)
            /\ UNCHANGED <<guild_configs, hist>>
    /\ UNCHANGED <<guild_balances, now, ticks, shard, cfg_w, cfg_r, bal_w>>

\* Line 578: insert, which replaces whatever entry the key has by now.
start_vote_insert(t) ==
    LET g == call[t].guild IN
    /\ pc[t] = "start_vote_insert"
    /\ CfgWriteFree(g)
    /\ guild_configs' = start_vote_insert_default(guild_configs, g)
    /\ pc' = [pc EXCEPT ![t] = "start_vote_get_mut"]
    /\ last' = VoteEvent("start_vote:insert", t, g, "", 0, FALSE)
    /\ UNCHANGED <<guild_balances, now, ticks, shard, call, cfg_w, cfg_r, bal_w, hist>>

\* Line 579: get_mut(..).unwrap(), then lines 582-616.  If the entry
\* inserted in line 578 is gone by now, get_mut returns None and unwrap
\* panics.
start_vote_get_mut(t) ==
    LET g == call[t].guild IN
    /\ pc[t] = "start_vote_get_mut"
    /\ CfgWriteFree(g)
    /\ IF Has(guild_configs, g)
       THEN StartVoteFinish(t, g, call[t].user)
       ELSE /\ call' = [call EXCEPT ![t] = NoCall]
            /\ Return(t, VoteEvent("start_vote", t, g, "panic", 0, FALSE))
            /\ UNCHANGED <<guild_configs, hist>>
    /\ UNCHANGED <<guild_balances, now, ticks, shard, cfg_w, cfg_r, bal_w>>

\* ------------------------------------------------------- no active vote
\* no_active_vote looking for the entry only, not at its active flag.
no_active_vote_entry_only(configs, g) == ~Has(configs, g)

\* Lines 626-634 and 670-678: get_mut finds no entry, or the entry's vote is
\* not active.
no_active_vote(configs, g) ==
    ~Has(configs, g) \/ ~configs[g].vote_status.active

\* ------------------------------------------------------------- end_vote
\* f64 arithmetic, as far as line 695 and line 698 need it.  A finite
\* positive f64 is [kind |-> "num", m, e]: m the 53 bits of its significand,
\* most significant (a 1) first, e the exponent of the last bit, the value
\* being m * 2^e.  The other values met are 0.0 and NaN (0.0 / 0.0).
MANTISSA_DIGITS == 53
F64Zero == [kind |-> "zero", m |-> << >>, e |-> 0]
F64NaN == [kind |-> "nan", m |-> << >>, e |-> 0]

\* Long division and multiplication go by limbs of 18 bits, which keeps
\* every intermediate product below 2^31.
LimbBase == 2^18
LimbBits(l) == [i \in 1..18 |-> (l \div 2^(18 - i)) % 2]

\* The bits of n > 0, the first a 1; none for n = 0.
IntBits(n) ==
    IF n = 0 THEN << >>
    ELSE LET len == CHOOSE k \in 1..31 : 2^(k - 1) <= n /\ (k = 31 \/ n < 2^k)
         IN [i \in 1..len |-> (n \div 2^(len - i)) % 2]

\* The number a sequence of at most 30 bits stands for.
RECURSIVE BitsInt(_)
BitsInt(s) ==
    IF s = << >> THEN 0
    ELSE IF Len(s) = 1 THEN s[1]
    ELSE LET h == Len(s) \div 2
         IN BitsInt(SubSeq(s, 1, h)) * 2^(Len(s) - h)
               + BitsInt(SubSeq(s, h + 1, Len(s)))

\* s + 1 on a sequence of bits; a carry out of the first bit adds a bit.
IncBits(s) ==
    IF \A i \in 1..Len(s) : s[i] = 1
    THEN <<1>> \o [i \in 1..Len(s) |-> 0]
    ELSE LET k == CHOOSE i \in 1..Len(s) :
                     s[i] = 0 /\ \A j \in (i + 1)..Len(s) : s[j] = 1
         IN [i \in 1..Len(s) |-> IF i < k THEN s[i] ELSE IF i = k THEN 1 ELSE 0]

\* s * k on a sequence of 53 bits, k a small integer.
MulBits(s, k) ==
    LET p3 == BitsInt(SubSeq(s, 36, 53)) * k
        p2 == BitsInt(SubSeq(s, 18, 35)) * k + p3 \div LimbBase
        p1 == BitsInt(SubSeq(s, 1, 17)) * k + p2 \div LimbBase
    IN IntBits(p1) \o LimbBits(p2 % LimbBase) \o LimbBits(p3 % LimbBase)

\* The first 54 bits of the binary fraction r / b (0 <= r < b < 2^13) and
\* what is left of r after them.
FracBits(r, b) ==
    LET n1 == r * LimbBase
        n2 == (n1 % b) * LimbBase
        n3 == (n2 % b) * LimbBase
    IN [bits |-> LimbBits(n1 \div b) \o LimbBits(n2 \div b) \o LimbBits(n3 \div b),
        rem |-> n3 % b]

\* a / b = (a' / b') * 2^s with 1/2 <= a' / b' < 1.
RECURSIVE Normalize(_, _, _)
Normalize(a, b, s) ==
    IF a >= b THEN Normalize(a, 2 * b, s + 1)
    ELSE IF 2 * a < b THEN Normalize(2 * a, b, s - 1)
    ELSE [a |-> a, b |-> b, s |-> s]

\* Round to nearest, ties to even: bits (more than 53, the first a 1) with
\* the exponent e of their last bit, inexact beyond them if sticky.
RoundF64(bits, e, sticky) ==
    LET m0 == SubSeq(bits, 1, MANTISSA_DIGITS)
        guard == bits[MANTISSA_DIGITS + 1]
        rest == SubSeq(bits, MANTISSA_DIGITS + 2, Len(bits))
        more == sticky \/ \E i \in 1..Len(rest) : rest[i] = 1
        up == guard = 1 /\ (more \/ m0[MANTISSA_DIGITS] = 1)
        m1 == IF up THEN IncBits(m0) ELSE m0
        e1 == e + Len(bits) - MANTISSA_DIGITS
    IN IF Len(m1) > MANTISSA_DIGITS
       THEN [kind |-> "num", m |-> SubSeq(m1, 1, MANTISSA_DIGITS), e |-> e1 + 1]
       ELSE [kind |-> "num", m |-> m1, e |-> e1]

\* a as f64 / b as f64, for a, b >= 0 (both exactly representable).
F64Div(a, b) ==
    IF b = 0 THEN F64NaN
    ELSE IF a = 0 THEN F64Zero
    ELSE LET n == Normalize(a, b, 0)
             q == FracBits(n.a, n.b)
         IN RoundF64(q.bits, n.s - (MANTISSA_DIGITS + 1), q.rem # 0)

\* x * k for a small integer k >= 2 (exactly representable).
F64MulInt(x, k) ==
    IF x.kind # "num" THEN x
    ELSE RoundF64(MulBits(x.m, k), x.e, FALSE)

\* x >= f64::from(k) for an integer 0 <= k < 2^30; false for NaN.
F64GeInt(x, k) ==
    IF x.kind = "nan" THEN FALSE
    ELSE IF x.kind = "zero" THEN 0 >= k
    ELSE LET n == MANTISSA_DIGITS + x.e
         IN IF n > 30 THEN TRUE
            ELSE IF n <= 0 THEN 0 >= k
            ELSE BitsInt(SubSeq(x.m, 1, n)) >= k

\* Line 695: (yes_votes as f64 / total_votes as f64) * 100.0.
yes_percentage(yes, total) == F64MulInt(F64Div(yes, total), 100)

\* Line 698: yes_percentage >= f64::from(majority_percentage).
vote_passed(yes, total, majority_percentage) ==
    F64GeInt(yes_percentage(yes, total), majority_percentage)

\* end_vote_tally without line 687: the vote stays active.
end_vote_tally_stays_active(config, t_now) ==
    LET yes == Len(config.vote_status.yes_votes)
        total == yes + Len(config.vote_status.no_votes)
    IN [cfg |-> [config EXCEPT !.vote_status.last_vote_time = Some(t_now)],
        passed |-> IF total < config.vote_config.min_votes
                   THEN FALSE
                   ELSE vote_passed(yes, total,
                                    config.vote_config.majority_percentage)]

\* end_vote_tally without line 686: last_vote_time is left as it was.
end_vote_tally_no_last_vote_time(config, t_now) ==
    LET yes == Len(config.vote_status.yes_votes)
        total == yes + Len(config.vote_status.no_votes)
    IN [cfg |-> [config EXCEPT !.vote_status.active = FALSE],
        passed |-> IF total < config.vote_config.min_votes
                   THEN FALSE
                   ELSE vote_passed(yes, total,
                                    config.vote_config.majority_percentage)]

\* end_vote_tally without the quorum check of lines 689-692.
end_vote_tally_no_quorum(config, t_now) ==
    LET yes == Len(config.vote_status.yes_votes)
        total == yes + Len(config.vote_status.no_votes)
    IN [cfg |-> [config EXCEPT !.vote_status.last_vote_time = Some(t_now),
                               !.vote_status.active = FALSE],
        passed |-> vote_passed(yes, total,
                               config.vote_config.majority_percentage)]

\* Lines 680-698 on an active vote: the entry afterwards and the outcome.
end_vote_tally(config, t_now) ==
    LET yes == Len(config.vote_status.yes_votes)
        no == Len(config.vote_status.no_votes)
        total == yes + no
        ended == [config EXCEPT !.vote_status.last_vote_time = Some(t_now),
                                !.vote_status.active = FALSE]
    IN [cfg |-> ended,
        passed |-> IF total < config.vote_config.min_votes
                   THEN FALSE
                   ELSE vote_passed(yes, total,
                                    config.vote_config.majority_percentage)]

HistEnded(h, t_now) ==
    [h EXCEPT !.ends = h.ends + 1, !.ended_at = Some(t_now)]

\* Once a vote of guild g has ended, a start_vote in progress no longer runs
\* beside the call that started that vote.
CallsAfterEnd(g, ended) ==
    [s \in Tasks |->
        IF ended /\ call[s].guild = g THEN [call[s] EXCEPT !.raced = FALSE]
        ELSE call[s]]

\* What the caller of end_vote makes of its result (lines 641-642, 731-734)
\* and the release of the caller's own reference.
EndVoteReturn(t, g, res, passed) ==
    LET outer == call[t].ret_to
        out == IF outer = "cast_vote"
               THEN [op |-> "cast_vote", res |-> IF res = "Ok" THEN VoteEnded ELSE res,
                     passed |-> FALSE]
               ELSE IF outer = "check_vote_expiry"
               THEN [op |-> "check_vote_expiry",
                     res |-> IF res = "Ok" THEN "Some" ELSE "None",
                     passed |-> passed]
               ELSE [op |-> "end_vote", res |-> res, passed |-> passed]
    IN /\ cfg_w' = [cfg_w EXCEPT ![g] = @ \ {t}]
       /\ cfg_r' = [cfg_r EXCEPT ![g] = @ \ {t}]
       /\ call' = [CallsAfterEnd(g, res = "Ok") EXCEPT ![t] = NoCall]
       /\ Return(t, VoteEvent(out.op, t, g, out.res, 0, out.passed))

\* A caller invokes end_vote(guild_id).
call_end_vote(t, g) ==
    /\ pc[t] = "idle"
    /\ pc' = [pc EXCEPT ![t] = "end_vote"]
    /\ call' = [call EXCEPT ![t] =
                  [NoCall EXCEPT !.op = "end_vote", !.guild = g,
                                 !.ret_to = "caller"]]
    /\ last' = VoteEvent("end_vote:call", t, g, "", 0, FALSE)
    /\ UNCHANGED <<guild_balances, guild_configs, now, ticks, shard, cfg_w, cfg_r,
                   bal_w, hist>>

\* Lines 670-698: get_mut, which waits until nobody holds a reference into
\* the guild's shard, then the tally under that RefMut.  A vote that passed
\* goes on to the balances (line 702) with the RefMut still held.
end_vote(t) ==
    LET g == call[t].guild IN
    /\ pc[t] = "end_vote"
    /\ CfgWriteFree(g)
    /\ IF no_active_vote(guild_configs, g)
       THEN /\ EndVoteReturn(t, g, NoActiveVote, FALSE)
            /\ UNCHANGED <<guild_configs, hist>>
       ELSE LET r == end_vote_tally(guild_configs[g], now) IN
            /\ guild_configs' = [guild_configs EXCEPT ![g] = r.cfg]
            /\ hist' = [hist EXCEPT ![g] = HistEnded(hist[g], now)]
            /\ IF r.passed /\ Has(guild_balances, g)
               THEN /\ pc' = [pc EXCEPT ![t] = "end_vote_clear"]
                    /\ cfg_w' = [cfg_w EXCEPT ![g] = @ \cup {t}]
                    /\ last' = VoteEvent("end_vote:passed", t, g, "", 0, TRUE)
                    /\ call' = CallsAfterEnd(g, TRUE)
                    /\ UNCHANGED cfg_r
               ELSE EndVoteReturn(t, g, "Ok", r.passed)
    /\ UNCHANGED <<guild_balances, now, ticks, shard, bal_w>>

\* clear_guild clearing the sub-map of every guild.
clear_every_guild(balances, g) == [h \in DOMAIN balances |-> EmptyMap]

\* clear_guild removing the guild's sub-map from guild_balances.
clear_guild_remove_key(balances, g) ==
    [h \in DOMAIN balances \ {g} |-> balances[h]]

\* Line 703: clear() keeps the guild's key and removes every user entry.
clear_guild(balances, g) == [balances EXCEPT ![g] = EmptyMap]

\* Lines 702-714: get_mut on guild_balances, clear, return Ok(true).
end_vote_clear(t) ==
    LET g == call[t].guild IN
    /\ pc[t] = "end_vote_clear"
    /\ BalFree(g)
    /\ guild_balances' = clear_guild(guild_balances, g)
    /\ hist' = [hist EXCEPT ![g].clears = @ + 1,
                            ![g].seq = [u \in Users |-> 0],
                            ![g].net = [u \in Users |-> 0]]
    /\ EndVoteReturn(t, g, "Ok", TRUE)
    /\ UNCHANGED <<guild_configs, now, ticks, shard, bal_w>>

\* ------------------------------------------------------------ cast_vote
\* cast_vote_record without the two retain calls of lines 649-656.
cast_vote_record_no_retain(vs, user, vote_yes) ==
    [vs EXCEPT !.yes_votes = IF vote_yes THEN Append(@, user) ELSE @,
               !.no_votes = IF vote_yes THEN @ ELSE Append(@, user)]

\* cast_vote_record pushing on yes_votes whatever the choice (line 658).
cast_vote_record_always_yes(vs, user, vote_yes) ==
    [vs EXCEPT !.yes_votes =
                  Append(SelectSeq(vs.yes_votes, LAMBDA id : id # user), user),
               !.no_votes = SelectSeq(vs.no_votes, LAMBDA id : id # user)]

\* cast_vote_record without the push of a no ballot (line 662).
cast_vote_record_no_push(vs, user, vote_yes) ==
    LET yes == SelectSeq(vs.yes_votes, LAMBDA id : id # user)
        no == SelectSeq(vs.no_votes, LAMBDA id : id # user)
    IN [vs EXCEPT !.yes_votes = IF vote_yes THEN Append(yes, user) ELSE yes,
                  !.no_votes = no]

\* Lines 646-663: retain on both lists, then push on the chosen one.
cast_vote_record(vs, user, vote_yes) ==
    LET yes == SelectSeq(vs.yes_votes, LAMBDA id : id # user)
        no == SelectSeq(vs.no_votes, LAMBDA id : id # user)
    IN [vs EXCEPT !.yes_votes = IF vote_yes THEN Append(yes, user) ELSE yes,
                  !.no_votes = IF vote_yes THEN no ELSE Append(no, user)]

\* Line 639: the vote is past its end.
vote_expired(vs, t_now) == vs.end_time # None /\ t_now > Unwrap(vs.end_time)

\* Lines 626-666.  On an expired vote the call goes into end_vote (line 641)
\* while config_ref, the RefMut of the guild's entry, is still alive.
cast_vote(t, g, u, vote_yes) ==
    /\ pc[t] = "idle"
    /\ CfgWriteFree(g)
    /\ IF no_active_vote(guild_configs, g)
       THEN /\ Return(t, VoteEvent("cast_vote", t, g, NoActiveVote, 0, FALSE))
            /\ UNCHANGED <<guild_configs, call, cfg_w>>
       ELSE IF vote_expired(guild_configs[g].vote_status, now)
       THEN /\ pc' = [pc EXCEPT ![t] = "end_vote"]
            /\ call' = [call EXCEPT ![t] =
                          [NoCall EXCEPT !.op = "cast_vote", !.guild = g,
                                         !.user = u, !.vote_yes = vote_yes,
                                         !.ret_to = "cast_vote"]]
            /\ cfg_w' = [cfg_w EXCEPT ![g] = @ \cup {t}]
            /\ last' = VoteEvent("cast_vote:expired", t, g, "", 0, FALSE)
            /\ UNCHANGED guild_configs
       ELSE /\ guild_configs' =
                  [guild_configs EXCEPT ![g].vote_status =
                       cast_vote_record(@, u, vote_yes)]
            /\ Return(t, VoteEvent("cast_vote", t, g, "Ok", 0, FALSE))
            /\ UNCHANGED <<call, cfg_w>>
    /\ UNCHANGED <<guild_balances, now, ticks, shard, cfg_r, bal_w, hist>>

\* ---------------------------------------------------- check_vote_expiry
\* Lines 718-739.  `config` is a Ref of the guild's entry, alive until the
\* function returns, so also across the call of end_vote in line 731.
check_vote_expiry(t, g) ==
    /\ pc[t] = "idle"
    /\ CfgReadFree(g)
    /\ IF /\ Has(guild_configs, g)
          /\ guild_configs[g].vote_status.active
          /\ vote_expired(guild_configs[g].vote_status, now)
       THEN /\ pc' = [pc EXCEPT ![t] = "end_vote"]
            /\ call' = [call EXCEPT ![t] =
                          [NoCall EXCEPT !.op = "check_vote_expiry",
                                         !.guild = g,
                                         !.ret_to = "check_vote_expiry"]]
            /\ cfg_r' = [cfg_r EXCEPT ![g] = @ \cup {t}]
            /\ last' = VoteEvent("check_vote_expiry:expired", t, g, "", 0, FALSE)
       ELSE /\ Return(t, VoteEvent("check_vote_expiry", t, g, "None", 0, FALSE))
            /\ UNCHANGED <<call, cfg_r>>
    /\ UNCHANGED <<guild_balances, guild_configs, now, ticks, shard, cfg_w, bal_w, hist>>

\* --------------------------------------------------------------- ledger
\* get_guild_balance (lines 335-340).
get_guild_balance(balances, g, u) ==
    IF Has(balances, g) /\ Has(balances[g], u) THEN balances[g][u] ELSE 0

\* entry(guild_id).or_insert_with(DashMap::new) (lines 358-361, 393-396).
entry_or_insert_guild(balances, g) ==
    IF Has(balances, g) THEN balances ELSE Insert(balances, g, EmptyMap)

\* entry(user_id).and_modify(|bal| *bal += amount).or_insert(amount).
add_entry(guild_map, u, amount) ==
    IF Has(guild_map, u)
    THEN [guild_map EXCEPT ![u] = @ + amount]
    ELSE Insert(guild_map, u, amount)

\* remove_entry subtracting without the test of *bal >= amount.
remove_entry_unchecked(guild_map, u, amount) ==
    IF Has(guild_map, u) THEN [guild_map EXCEPT ![u] = @ - amount]
    ELSE Insert(guild_map, u, 0)

\* remove_entry setting the balance to 0 whatever the amount.
remove_entry_to_zero(guild_map, u, amount) ==
    IF Has(guild_map, u) THEN [guild_map EXCEPT ![u] = 0]
    ELSE Insert(guild_map, u, 0)

\* entry(user_id).and_modify(floor at 0).or_insert(0) (lines 402-411).
remove_entry(guild_map, u, amount) ==
    IF Has(guild_map, u)
    THEN [guild_map EXCEPT ![u] = IF @ >= amount THEN @ - amount ELSE 0]
    ELSE Insert(guild_map, u, 0)

\* The ledger the calls would leave if they ran one at a time.
SeqCredit(h, u, amount) ==
    [h EXCEPT !.seq[u] = @ + amount, !.net[u] = @ + amount]
SeqDebit(h, u, amount) ==
    [h EXCEPT !.seq[u] = IF @ - amount > 0 THEN @ - amount ELSE 0,
              !.net[u] = @ - amount]

RECURSIVE SumAmounts(_)
SumAmounts(S) ==
    IF S = {} THEN 0
    ELSE LET s == CHOOSE x \in S : TRUE
         IN call[s].amount + SumAmounts(S \ {s})

\* What the credits in progress will still add to (g, u).
Pending(g, u) ==
    SumAmounts({s \in Tasks : /\ pc[s] \in {"add_coins_entry", "give_coins_entry"}
                              /\ call[s].guild = g
                              /\ call[s].user = u})

\* The model stops crediting at a bound.
CreditInBounds(g, u, amount, bound) ==
    get_guild_balance(guild_balances, g, u) + Pending(g, u) + amount <= bound

\* What the debits in progress will still take from (g, u).
PendingDebits(g, u) ==
    SumAmounts({s \in Tasks : /\ pc[s] = "remove_coins_entry"
                              /\ call[s].guild = g
                              /\ call[s].user = u})

\* The model stops debiting once the debits exceed the credits by a bound.
DebitInBounds(g, u, amount, bound) ==
    hist[g].net[u] - PendingDebits(g, u) - amount >= 0 - bound

\* Lines 358-364 (and 393-399), from op = add_coins or remove_coins: the
\* RefMut of the guild's sub-map, held until the call returns, and the read
\* of previous_balance.
ledger_lock(t, op, g, u, amount) ==
    /\ pc[t] = "idle"
    /\ BalFree(g)
    /\ guild_balances' = entry_or_insert_guild(guild_balances, g)
    /\ bal_w' = [bal_w EXCEPT ![g] = @ \cup {t}]
    /\ pc' = [pc EXCEPT ![t] = op \o "_entry"]
    /\ call' = [call EXCEPT ![t] =
                  [NoCall EXCEPT !.op = op, !.guild = g, !.user = u,
                                 !.amount = amount,
                                 !.prev = get_guild_balance(guild_balances, g, u)]]
    /\ last' = [NoEvent EXCEPT !.op = op \o ":lock", !.guild = g, !.user = u]
    /\ UNCHANGED <<guild_configs, now, ticks, shard, cfg_w, cfg_r, hist>>

add_coins(t, g, u, amount) == ledger_lock(t, "add_coins", g, u, amount)

remove_coins(t, g, u, amount) == ledger_lock(t, "remove_coins", g, u, amount)

\* add_coins_entry looking into guild_configs with the sub-map held: the
\* opposite order of end_vote, which add_coins does not take.
add_coins_entry_under_config(t) ==
    LET g == call[t].guild
        u == call[t].user
        m == add_entry(guild_balances[g], u, call[t].amount)
    IN /\ pc[t] = "add_coins_entry"
       /\ CfgWriteFree(g)
       /\ guild_balances' = [guild_balances EXCEPT ![g] = m]
       /\ hist' = [hist EXCEPT ![g] = SeqCredit(@, u, call[t].amount)]
       /\ bal_w' = [bal_w EXCEPT ![g] = @ \ {t}]
       /\ call' = [call EXCEPT ![t] = NoCall]
       /\ Return(t, LedgerEvent("add_coins", t, "Ok", m[u]))
       /\ UNCHANGED <<guild_configs, now, ticks, shard, cfg_w, cfg_r>>

\* Lines 367-382: the update, the log record and the return.
add_coins_entry(t) ==
    LET g == call[t].guild
        u == call[t].user
        m == add_entry(guild_balances[g], u, call[t].amount)
    IN /\ pc[t] = "add_coins_entry"
       /\ guild_balances' = [guild_balances EXCEPT ![g] = m]
       /\ hist' = [hist EXCEPT ![g] = SeqCredit(@, u, call[t].amount)]
       /\ bal_w' = [bal_w EXCEPT ![g] = @ \ {t}]
       /\ call' = [call EXCEPT ![t] = NoCall]
       /\ Return(t, LedgerEvent("add_coins", t, "Ok", m[u]))
       /\ UNCHANGED <<guild_configs, now, ticks, shard, cfg_w, cfg_r>>

\* Lines 402-425.
remove_coins_entry(t) ==
    LET g == call[t].guild
        u == call[t].user
        m == remove_entry(guild_balances[g], u, call[t].amount)
    IN /\ pc[t] = "remove_coins_entry"
       /\ guild_balances' = [guild_balances EXCEPT ![g] = m]
       /\ hist' = [hist EXCEPT ![g] = SeqDebit(@, u, call[t].amount)]
       /\ bal_w' = [bal_w EXCEPT ![g] = @ \ {t}]
       /\ call' = [call EXCEPT ![t] = NoCall]
       /\ Return(t, LedgerEvent("remove_coins", t, "Ok", m[u]))
       /\ UNCHANGED <<guild_configs, now, ticks, shard, cfg_w, cfg_r>>

\* give.rs line 13: previous_balance = data.get_guild_balance(..), a read
\* whose references are dropped before the entry is taken.
give_coins(t, g, u, amount) ==
    /\ pc[t] = "idle"
    /\ BalFree(g)
    /\ pc' = [pc EXCEPT ![t] = "give_coins_entry"]
    /\ call' = [call EXCEPT ![t] =
                  [NoCall EXCEPT !.op = "give_coins", !.guild = g, !.user = u,
                                 !.amount = amount,
                                 !.prev = get_guild_balance(guild_balances, g, u)]]
    /\ last' = [NoEvent EXCEPT !.op = "give_coins:read", !.guild = g, !.user = u]
    /\ UNCHANGED <<guild_balances, guild_configs, now, ticks, shard, cfg_w, cfg_r,
                   bal_w, hist>>

\* give_coins_update writing previous + amount, with the balance read in
\* line 13, instead of modifying the entry in place.
give_coins_update_from_previous(balances, g, u, amount, previous) ==
    Insert(entry_or_insert_guild(balances, g)[g], u, previous + amount)

\* give.rs lines 16-24: the sub-map of the guild after the update; previous
\* is the balance read in line 13.
give_coins_update(balances, g, u, amount, previous) ==
    add_entry(entry_or_insert_guild(balances, g)[g], u, amount)

\* give.rs lines 16-36.
give_coins_entry(t) ==
    LET g == call[t].guild
        u == call[t].user
        m == give_coins_update(guild_balances, g, u, call[t].amount, call[t].prev)
    IN /\ pc[t] = "give_coins_entry"
       /\ BalFree(g)
       /\ guild_balances' = Insert(guild_balances, g, m)
       /\ hist' = [hist EXCEPT ![g] = SeqCredit(@, u, call[t].amount)]
       /\ call' = [call EXCEPT ![t] = NoCall]
       /\ Return(t, LedgerEvent("give_coins", t, "Ok", m[u]))
       /\ UNCHANGED <<guild_configs, now, ticks, shard, cfg_w, cfg_r, bal_w>>

\* ---------------------------------------------------------- import_data
\* import_balances leaving a balance that exists as it is.
RECURSIVE import_balances_keep_existing(_, _)
import_balances_keep_existing(balances, recs) ==
    IF recs = << >> THEN balances
    ELSE LET r == Head(recs)
             m == entry_or_insert_guild(balances, r.guild_id)
         IN import_balances_keep_existing(
               IF Has(m[r.guild_id], r.user_id) THEN m
               ELSE [m EXCEPT ![r.guild_id] = Insert(@, r.user_id, r.balance)],
               Tail(recs))

\* Lines 165-177: every balance record is inserted into the sub-map of its
\* guild, which is created if missing.
RECURSIVE import_balances(_, _)
import_balances(balances, recs) ==
    IF recs = << >> THEN balances
    ELSE LET r == Head(recs)
             m == entry_or_insert_guild(balances, r.guild_id)
         IN import_balances(
               [m EXCEPT ![r.guild_id] = Insert(@, r.user_id, r.balance)],
               Tail(recs))

\* import_configs inserting every record with a default vote_status.
RECURSIVE import_configs_reset_status(_, _)
import_configs_reset_status(configs, recs) ==
    IF recs = << >> THEN configs
    ELSE import_configs_reset_status(
            Insert(configs, Head(recs).guild_id,
                   [Head(recs) EXCEPT !.vote_status = DefaultVoteStatus]),
            Tail(recs))

\* Lines 179-183: every config record is inserted as it is under its guild.
RECURSIVE import_configs(_, _)
import_configs(configs, recs) ==
    IF recs = << >> THEN configs
    ELSE import_configs(Insert(configs, Head(recs).guild_id, Head(recs)),
                        Tail(recs))

\* import_data (lines 164-197).  load() calls it on the new store before any
\* command runs; Data::import_data (line 90) offers it on any store.
import_data(t, balances, configs) ==
    /\ pc[t] = "idle"
    /\ \A g \in DOMAIN guild_balances : BalFree(g)
    /\ guild_balances' = import_balances(guild_balances, balances)
    /\ guild_configs' = import_configs(guild_configs, configs)
    /\ hist' = [g \in Guilds |->
                  LET imported == [u \in Users |->
                                     get_guild_balance(guild_balances', g, u)]
                      named == \E i \in 1..Len(configs) : configs[i].guild_id = g
                  IN IF named THEN [NoHist EXCEPT !.seq = imported, !.net = imported]
                     ELSE [hist[g] EXCEPT !.seq = imported, !.net = imported]]
    /\ last' = [NoEvent EXCEPT !.op = "import_data"]
    /\ UNCHANGED <<now, ticks, shard, pc, call, cfg_w, cfg_r, bal_w>>

\* The records a data file holds in the model: none or one balance, and none
\* or one config of guild 1, with no vote, with a vote in progress, or with
\* active set and nothing else of the vote (the Option fields absent).
ImportBalances == { << >>, <<[guild_id |-> 1, user_id |-> 1, balance |-> 1]>> }

ImportConfigs ==
    LET vc == [cooldown_hours |-> 1, duration_minutes |-> 1,
               min_votes |-> 1, majority_percentage |-> 50]
        idle == NewGuildConfig(1, None, vc)
    IN { << >>,
         <<idle>>,
         <<[idle EXCEPT !.vote_status =
               [active |-> TRUE, start_time |-> Some(0), end_time |-> Some(1),
                initiator_id |-> Some(1), yes_votes |-> <<1>>,
                no_votes |-> << >>, last_vote_time |-> None]]>>,
         <<[idle EXCEPT !.vote_status.active = TRUE]>> }

\* ---------------------------------------------------------------- reset
\* reset (lines 527-530), line 528: guild_balances.clear() takes the write
\* lock of every shard and removes every sub-map.
reset(t) ==
    /\ pc[t] = "idle"
    /\ \A g \in Guilds : BalFree(g)
    /\ guild_balances' = EmptyMap
    /\ hist' = [g \in Guilds |->
                  [hist[g] EXCEPT !.seq = NoHist.seq, !.net = NoHist.net]]
    /\ pc' = [pc EXCEPT ![t] = "reset_configs"]
    /\ call' = [call EXCEPT ![t] = [NoCall EXCEPT !.op = "reset"]]
    /\ last' = [NoEvent EXCEPT !.op = "reset:balances"]
    /\ UNCHANGED <<guild_configs, now, ticks, shard, cfg_w, cfg_r, bal_w>>

\* Line 529: guild_configs.clear() removes every entry.
reset_configs(t) ==
    /\ pc[t] = "reset_configs"
    /\ \A g \in Guilds : CfgWriteFree(g)
    /\ guild_configs' = EmptyMap
    /\ hist' = [g \in Guilds |->
                  [NoHist EXCEPT !.seq = hist[g].seq, !.net = hist[g].net]]
    /\ call' = [s \in Tasks |->
                  IF s = t THEN NoCall ELSE [call[s] EXCEPT !.raced = FALSE]]
    /\ Return(t, [NoEvent EXCEPT !.op = "reset", !.res = "Ok"])
    /\ UNCHANGED <<guild_balances, now, ticks, shard, cfg_w, cfg_r, bal_w>>

\* ---------------------------------------------------------- specifications
\* The vote machine of one guild, with credits to have balances to reset.
VoteNext ==
    \/ \E d \in Jumps : Tick(d)
    \/ \E t \in Tasks, g \in VoteGuilds :
          \/ \E vc \in ConfigChoices : set_vote_config(t, g, vc)
          \/ get_vote_status(t, g)
          \/ \E u \in Users : start_vote(t, g, u)
          \/ \E u \in Users, y \in BOOLEAN : cast_vote(t, g, u, y)
          \/ call_end_vote(t, g)
          \/ check_vote_expiry(t, g)
          \/ CreditInBounds(g, 1, 1, MaxVoteBalance) /\ add_coins(t, g, 1, 1)
    \/ \E t \in Tasks :
          \/ start_vote_insert(t)
          \/ start_vote_get_mut(t)
          \/ end_vote(t)
          \/ end_vote_clear(t)
          \/ add_coins_entry(t)

Spec == Init /\ [][VoteNext]_vars

\* The ledger alone: concurrent credits and debits.
LedgerNext ==
    \/ \E t \in Tasks, g \in LedgerGuilds, u \in Users, a \in Amounts :
          \/ CreditInBounds(g, u, a, MaxBalance) /\ add_coins(t, g, u, a)
          \/ DebitInBounds(g, u, a, MaxOverdraft) /\ remove_coins(t, g, u, a)
          \/ CreditInBounds(g, u, a, MaxBalance) /\ give_coins(t, g, u, a)
    \/ \E t \in Tasks :
          \/ add_coins_entry(t)
          \/ remove_coins_entry(t)
          \/ give_coins_entry(t)

LedgerSpec == Init /\ [][LedgerNext]_vars

\* The votes of one guild with calls one at a time, under every
\* configuration of EndConfigs and the default one.
EndNext ==
    \/ \E d \in Jumps : Tick(d)
    \/ \E g \in VoteGuilds :
          \/ \E vc \in EndConfigs : set_vote_config("t1", g, vc)
          \/ \E u \in Users : start_vote("t1", g, u)
          \/ \E u \in Users, y \in BOOLEAN : cast_vote("t1", g, u, y)
          \/ call_end_vote("t1", g)
          \/ CreditInBounds(g, 1, 1, MaxVoteBalance) /\ add_coins("t1", g, 1, 1)
    \/ start_vote_insert("t1")
    \/ start_vote_get_mut("t1")
    \/ end_vote("t1")
    \/ end_vote_clear("t1")
    \/ add_coins_entry("t1")

EndSpec == Init /\ [][EndNext]_vars

\* The tally of end_vote as a function of the ballots: an active vote of
\* guild 1 with `yes` yes ballots and `no` no ballots, cast by the users
\* 1..yes+no, under a quorum and a majority drawn from small sets, and a
\* balance to reset.
TallyQuorums == {1, 10}
TallyMajorities == {50, 58, 70}

TallyInit ==
    \E yes \in 0..MaxTally, no \in 0..MaxTally,
       q \in TallyQuorums, mj \in TallyMajorities :
       /\ yes + no >= 1 /\ yes + no <= MaxTally
       /\ LET vc == [DefaultVoteConfig EXCEPT !.min_votes = q,
                                              !.majority_percentage = mj]
              vs == [active |-> TRUE,
                     start_time |-> Some(0),
                     end_time |-> Some(Minutes(vc.duration_minutes)),
                     initiator_id |-> Some(1),
                     yes_votes |-> [i \in 1..yes |-> i],
                     no_votes |-> [i \in 1..no |-> yes + i],
                     last_vote_time |-> None]
          IN /\ guild_configs =
                   (1 :> [NewGuildConfig(1, None, vc) EXCEPT !.vote_status = vs])
             /\ hist = [g \in Guilds |->
                          IF g = 1 THEN [HistStarted(NoHist, vc)
                                           EXCEPT !.seq[1] = 1, !.net[1] = 1]
                          ELSE NoHist]
       /\ guild_balances = (1 :> (1 :> 1))
       /\ now = 0
       /\ ticks = 0
       /\ shard = [g \in Guilds |-> g]
       /\ pc = [t \in Tasks |-> "idle"]
       /\ call = [t \in Tasks |-> NoCall]
       /\ cfg_w = [g \in Guilds |-> {}]
       /\ cfg_r = [g \in Guilds |-> {}]
       /\ bal_w = [g \in Guilds |-> {}]
       /\ last = [NoEvent EXCEPT !.op = "init"]

TallyNext ==
    \/ call_end_vote("t1", 1)
    \/ end_vote("t1")
    \/ end_vote_clear("t1")

TallySpec == TallyInit /\ [][TallyNext]_vars

\* The votes of one guild after a load, which imports the data file into
\* the new store, with calls one at a time.
ImportNext ==
    \/ \E b \in ImportBalances, c \in ImportConfigs :
          last.op = "init" /\ import_data("t1", b, c)
    \/ \E d \in Jumps : Tick(d)
    \/ \E g \in VoteGuilds :
          \/ \E u \in Users : start_vote("t1", g, u)
          \/ \E u \in Users, y \in BOOLEAN : cast_vote("t1", g, u, y)
          \/ call_end_vote("t1", g)
          \/ check_vote_expiry("t1", g)
    \/ start_vote_insert("t1")
    \/ start_vote_get_mut("t1")
    \/ end_vote("t1")
    \/ end_vote_clear("t1")

ImportSpec == Init /\ [][ImportNext]_vars

\* The votes of two guilds whose keys hash to one shard of guild_configs or
\* to two.  Each guild has the vote configuration of ConfigChoices, one
\* voter, and a balance to reset.
GuildsInit ==
    /\ shard \in {[g \in Guilds |-> g], [g \in Guilds |-> 1]}
    /\ \E vc \in ConfigChoices :
          guild_configs = [g \in Guilds |-> NewGuildConfig(g, None, vc)]
    /\ guild_balances = [g \in Guilds |-> (1 :> 1)]
    /\ hist = [g \in Guilds |-> [NoHist EXCEPT !.seq[1] = 1, !.net[1] = 1]]
    /\ now = 0
    /\ ticks = 0
    /\ pc = [t \in Tasks |-> "idle"]
    /\ call = [t \in Tasks |-> NoCall]
    /\ cfg_w = [g \in Guilds |-> {}]
    /\ cfg_r = [g \in Guilds |-> {}]
    /\ bal_w = [g \in Guilds |-> {}]
    /\ last = [NoEvent EXCEPT !.op = "init"]

GuildsNext ==
    \/ \E d \in Jumps : Tick(d)
    \/ \E t \in Tasks, g \in Guilds :
          \/ start_vote(t, g, 1)
          \/ \E y \in BOOLEAN : cast_vote(t, g, 1, y)
          \/ call_end_vote(t, g)
          \/ check_vote_expiry(t, g)
    \/ \E t \in Tasks :
          \/ end_vote(t)
          \/ end_vote_clear(t)

GuildsSpec == GuildsInit /\ [][GuildsNext]_vars

\* ---------------------------------------------------------------- u32
\* A balance is a u32.  Where the size of the type matters a balance is
\* written as the pair <<high, low>> of its 16-bit halves, so that the sum of
\* two balances can be formed at its full width.
Half == 2^16
U32_ZERO == <<0, 0>>
U32_MAX == <<Half - 1, Half - 1>>

\* The sum of two numbers written in halves, as a number: the high part of
\* the result is not cut off at 16 bits.
WideSum(a, b) ==
    LET lo == a[2] + b[2]
    IN <<a[1] + b[1] + (lo \div Half), lo % Half>>

\* A number above u32::MAX, and the u32 left of it when the bits above the
\* 32nd are dropped.
AboveU32(n) == n[1] >= Half
WrapU32(n) == <<n[1] % Half, n[2]>>

\* a <= b and a < b on numbers written in halves.
WideLe(a, b) == a[1] < b[1] \/ (a[1] = b[1] /\ a[2] <= b[2])
WideLt(a, b) == a[1] < b[1] \/ (a[1] = b[1] /\ a[2] < b[2])

\* *bal += amount on u32 (data.rs line 369, give.rs line 23).  A sum above
\* u32::MAX panics ("attempt to add with overflow") in a build with
\* overflow checks, the default of the dev profile, and wraps around in a
\* build without them, the default of the release profile.
add_assign(bal, amount, overflow_checks) ==
    LET sum == WideSum(bal, amount)
    IN [panic |-> overflow_checks /\ AboveU32(sum), value |-> WrapU32(sum)]

\* get_guild_balance (lines 335-340) on balances written in halves.
get_guild_balance_u32(balances, g, u) ==
    IF Has(balances, g) /\ Has(balances[g], u) THEN balances[g][u]
    ELSE U32_ZERO

\* entry(user_id).and_modify(|bal| *bal += amount).or_insert(amount) at the
\* width of u32: the sub-map left, and whether the addition panicked, which
\* leaves the entry as it was.
add_entry_u32(guild_map, u, amount, overflow_checks) ==
    IF Has(guild_map, u)
    THEN LET r == add_assign(guild_map[u], amount, overflow_checks)
         IN [panic |-> r.panic,
             map |-> IF r.panic THEN guild_map
                     ELSE [guild_map EXCEPT ![u] = r.value]]
    ELSE [panic |-> FALSE, map |-> Insert(guild_map, u, amount)]

\* add_coins (lines 351-383) and give_coins (give.rs lines 5-37) as one step
\* each: the RefMut of the guild's sub-map is taken first and held until the
\* call returns or unwinds.  op names the function called.
credit_u32(t, op, g, u, amount, overflow_checks) ==
    LET with_guild == entry_or_insert_guild(guild_balances, g)
        r == add_entry_u32(with_guild[g], u, amount, overflow_checks)
    IN /\ pc[t] = "idle"
       /\ BalFree(g)
       /\ guild_balances' = [with_guild EXCEPT ![g] = r.map]
       /\ last' = [NoEvent EXCEPT
                      !.op = op, !.guild = g, !.user = u, !.amount = amount,
                      !.prev = get_guild_balance_u32(guild_balances, g, u),
                      !.res = IF r.panic THEN "panic" ELSE "Ok",
                      !.val = IF r.panic THEN None ELSE Some(r.map[u])]
       /\ UNCHANGED <<guild_configs, now, ticks, shard, pc, call, cfg_w,
                      cfg_r, bal_w, hist>>

\* Lines 344-347: filter_map keeps the balance of the user in every guild
\* that has an entry for it, and sum() adds them up as u32, one after the
\* other.
RECURSIVE sum_u32(_, _, _, _)
sum_u32(balances, guilds, u, overflow_checks) ==
    IF guilds = {} THEN [panic |-> FALSE, value |-> U32_ZERO]
    ELSE LET g == CHOOSE x \in guilds : TRUE
             rest == sum_u32(balances, guilds \ {g}, u, overflow_checks)
             r == add_assign(rest.value, balances[g][u], overflow_checks)
         IN [panic |-> rest.panic \/ r.panic, value |-> r.value]

\* get_total_balance (lines 343-348).
get_total_balance(t, u, overflow_checks) ==
    LET with_user == {g \in DOMAIN guild_balances : Has(guild_balances[g], u)}
        r == sum_u32(guild_balances, with_user, u, overflow_checks)
    IN /\ pc[t] = "idle"
       /\ \A g \in DOMAIN guild_balances : BalFree(g)
       /\ last' = [NoEvent EXCEPT
                      !.op = "get_total_balance", !.user = u,
                      !.res = IF r.panic THEN "panic" ELSE "Ok",
                      !.val = IF r.panic THEN None ELSE Some(r.value)]
       /\ UNCHANGED <<guild_balances, guild_configs, now, ticks, shard, pc,
                      call, cfg_w, cfg_r, bal_w, hist>>

\* The ledger at the width of u32: credits of 1, of 2^31 and of u32::MAX to
\* one user in two guilds, by one task, and the user's total.  The model
\* makes a credit only if the balance it leaves is one of WordValues.
WordAmounts == { <<0, 1>>, <<Half \div 2, 0>>, U32_MAX }
WordValues ==
    { U32_ZERO, <<0, 1>>, <<0, 2>>, <<Half \div 2, 0>>,
      <<Half - 1, Half - 2>>, U32_MAX }

WordNext ==
    \/ \E g \in Guilds, a \in WordAmounts, oc \in BOOLEAN,
          op \in {"add_coins", "give_coins"} :
          /\ add_assign(get_guild_balance_u32(guild_balances, g, 1), a, oc).value
                \in WordValues
          /\ credit_u32("t1", op, g, 1, a, oc)
    \/ \E oc \in BOOLEAN : get_total_balance("t1", 1, oc)

WordSpec == Init /\ [][WordNext]_vars

\* ------------------------------------------------------------ leaderboards
\* The orders in which an iteration over a DashMap can yield the keys of the
\* set S: the order depends on the hashes and is not specified.
Orderings(S) ==
    {s \in [1..Cardinality(S) -> S] :
        \A i, j \in 1..Cardinality(S) : i # j => s[i] # s[j]}

\* Lines 436-439 and 465-468: iter().map(..).collect() yields one pair
\* (key, value) for every entry of the map, in the order of the iteration.
collect(map, order) == [i \in 1..Len(order) |-> <<order[i], map[order[i]]>>]

\* Lines 441 and 470: sort_by(|a, b| b.1.cmp(&a.1)), a stable sort by
\* decreasing balance: pairs of equal balance keep their order.
RECURSIVE insert_sorted(_, _)
insert_sorted(sorted, x) ==
    IF sorted = << >> THEN <<x>>
    ELSE IF WideLe(x[2], Head(sorted)[2])
    THEN <<Head(sorted)>> \o insert_sorted(Tail(sorted), x)
    ELSE <<x>> \o sorted

\* sort_by sorting by increasing balance.
RECURSIVE sort_by_ascending(_)
sort_by_ascending(users) ==
    IF users = << >> THEN << >>
    ELSE LET rest == sort_by_ascending(Tail(users))
             x == Head(users)
             k == Cardinality({i \in 1..Len(rest) : WideLt(rest[i][2], x[2])})
         IN SubSeq(rest, 1, k) \o <<x>> \o SubSeq(rest, k + 1, Len(rest))

RECURSIVE sort_by(_)
sort_by(users) ==
    IF users = << >> THEN << >>
    ELSE insert_sorted(sort_by(SubSeq(users, 1, Len(users) - 1)),
                       users[Len(users)])

\* truncate keeping every element.
truncate_nothing(users, limit) == users

\* Lines 442 and 471: truncate(limit) keeps the first limit elements.
truncate(users, limit) ==
    SubSeq(users, 1, IF limit < Len(users) THEN limit ELSE Len(users))

\* get_guild_top_users (lines 429-447).  The Ref of the guild's sub-map is
\* held from the lookup to the return, so no credit, debit or reset of the
\* guild runs in between: the call is one step.
get_guild_top_users(t, g, limit, order) ==
    /\ pc[t] = "idle"
    /\ BalFree(g)
    /\ IF Has(guild_balances, g)
       THEN /\ order \in Orderings(DOMAIN guild_balances[g])
            /\ last' = [NoEvent EXCEPT
                           !.op = "get_guild_top_users", !.guild = g,
                           !.amount = limit, !.res = "Ok",
                           !.val = truncate(sort_by(
                                      collect(guild_balances[g], order)), limit)]
       ELSE /\ order = << >>
            /\ last' = [NoEvent EXCEPT
                           !.op = "get_guild_top_users", !.guild = g,
                           !.amount = limit, !.res = "Ok", !.val = << >>]
    /\ UNCHANGED <<guild_balances, guild_configs, now, ticks, shard, pc, call,
                   cfg_w, cfg_r, bal_w, hist>>

\* Lines 452-461: user_totals, the map from every user with an entry in some
\* guild to the u32 sum of its balances, and whether an addition panicked.
user_totals(balances, overflow_checks) ==
    LET users == UNION {DOMAIN balances[g] : g \in DOMAIN balances}
        total(u) == sum_u32(balances,
                            {g \in DOMAIN balances : Has(balances[g], u)},
                            u, overflow_checks)
    IN [panic |-> \E u \in users : total(u).panic,
        map |-> [u \in users |-> total(u).value]]

\* get_global_top_users (lines 450-473), with one task running.
get_global_top_users(t, limit, order, overflow_checks) ==
    LET totals == user_totals(guild_balances, overflow_checks)
    IN /\ pc[t] = "idle"
       /\ \A g \in DOMAIN guild_balances : BalFree(g)
       /\ order \in Orderings(DOMAIN totals.map)
       /\ last' = [NoEvent EXCEPT
                      !.op = "get_global_top_users", !.amount = limit,
                      !.res = IF totals.panic THEN "panic" ELSE "Ok",
                      !.val = IF totals.panic THEN << >>
                              ELSE truncate(sort_by(collect(totals.map, order)),
                                            limit)]
       /\ UNCHANGED <<guild_balances, guild_configs, now, ticks, shard, pc,
                      call, cfg_w, cfg_r, bal_w, hist>>

\* The leaderboards of two guilds: credits of 1 and of u32::MAX to three
\* users in guild 1 and one of them in guild 2, by one task, and the two
\* leaderboards with every limit up to MaxLimit.  The model makes a credit
\* only if the balance it leaves is one of BoardValues.
BoardUsers == {1, 2, 3}
BoardKeys == {<<1, 1>>, <<1, 2>>, <<1, 3>>, <<2, 1>>}
BoardAmounts == { <<0, 1>>, U32_MAX }
BoardValues == { <<0, 1>>, <<0, 2>>, U32_MAX }

BoardNext ==
    \/ \E k \in BoardKeys, a \in BoardAmounts, oc \in BOOLEAN :
          /\ add_assign(get_guild_balance_u32(guild_balances, k[1], k[2]),
                        a, oc).value \in BoardValues
          /\ credit_u32("t1", "add_coins", k[1], k[2], a, oc)
    \/ \E g \in Guilds, limit \in 0..MaxLimit :
          \E order \in Orderings(IF Has(guild_balances, g)
                                 THEN DOMAIN guild_balances[g] ELSE {}) :
             get_guild_top_users("t1", g, limit, order)
    \/ \E limit \in 0..MaxLimit, oc \in BOOLEAN :
          \E order \in Orderings(DOMAIN user_totals(guild_balances, oc).map) :
             get_global_top_users("t1", limit, order, oc)

BoardSpec == Init /\ [][BoardNext]_vars

\* ---------------------------------------------------------- export_data
\* export_balances writing the user's id as guild_id and the guild's as
\* user_id.
RECURSIVE export_balances_swapped_ids(_, _, _)
export_balances_swapped_ids(balances, guild_order, user_order) ==
    IF guild_order = << >> THEN << >>
    ELSE LET g == Head(guild_order)
             users == user_order[g]
         IN [i \in 1..Len(users) |->
                [guild_id |-> users[i], user_id |-> g,
                 balance |-> balances[g][users[i]]]]
            \o export_balances_swapped_ids(balances, Tail(guild_order),
                                           user_order)

\* Lines 231-243: one UserBalance record for every user entry of every
\* guild, in the order in which the two nested iterations yield them.
RECURSIVE export_balances(_, _, _)
export_balances(balances, guild_order, user_order) ==
    IF guild_order = << >> THEN << >>
    ELSE LET g == Head(guild_order)
             users == user_order[g]
         IN [i \in 1..Len(users) |->
                [guild_id |-> g, user_id |-> users[i],
                 balance |-> balances[g][users[i]]]]
            \o export_balances(balances, Tail(guild_order), user_order)

\* Lines 245-257: one GuildConfig record for every entry of guild_configs,
\* its guild_id taken from the key and the other fields from the value.
export_configs(configs, order) ==
    [i \in 1..Len(order) |->
        [guild_id |-> order[i],
         giver_role_id |-> configs[order[i]].giver_role_id,
         vote_config |-> configs[order[i]].vote_config,
         vote_status |-> configs[order[i]].vote_status]]

\* The orders in which the iterations of export_data can run over a store.
UserOrders(balances) ==
    {f \in [DOMAIN balances ->
              UNION {Orderings(DOMAIN balances[g]) : g \in DOMAIN balances}] :
        \A g \in DOMAIN balances : f[g] \in Orderings(DOMAIN balances[g])}

\* export_data (lines 230-260), with one task running.
export_data(t, guild_order, user_order, config_order) ==
    /\ pc[t] = "idle"
    /\ \A g \in DOMAIN guild_balances : BalFree(g)
    /\ guild_order \in Orderings(DOMAIN guild_balances)
    /\ user_order \in UserOrders(guild_balances)
    /\ config_order \in Orderings(DOMAIN guild_configs)
    /\ last' = [NoEvent EXCEPT
                   !.op = "export_data",
                   !.val = [balances |-> export_balances(guild_balances,
                                            guild_order, user_order),
                            configs |-> export_configs(guild_configs,
                                                       config_order)]]
    /\ UNCHANGED <<guild_balances, guild_configs, now, ticks, shard, pc, call,
                   cfg_w, cfg_r, bal_w, hist>>

\* The store under imports and exports: credits to user 1 of guild 2,
\* imports at any time of one of StoreFiles, whose balance and config
\* records name some keys twice and some not at all and hold a giver role
\* and a vote in progress, the end of an imported vote, which can reset
\* guild 1, and exports, by one task.
StoreFiles ==
    LET r(g, u, b) == [guild_id |-> g, user_id |-> u, balance |-> b]
        vc == [cooldown_hours |-> 1, duration_minutes |-> 1,
               min_votes |-> 1, majority_percentage |-> 50]
        idle(g) == NewGuildConfig(g, None, vc)
        voting == [active |-> TRUE, start_time |-> Some(0),
                   end_time |-> Some(1), initiator_id |-> Some(1),
                   yes_votes |-> <<1>>, no_votes |-> <<2>>,
                   last_vote_time |-> None]
    IN { << <<r(1, 2, 0)>>,
            <<[idle(1) EXCEPT !.giver_role_id = Some(7),
                              !.vote_status = voting]>> >>,
         << <<r(1, 1, 2), r(1, 1, 1)>>,
            <<idle(2), NewGuildConfig(2, Some(7), DefaultVoteConfig)>> >>,
         << <<r(2, 2, 1), r(1, 2, 1)>>, << >> >>,
         << << >>, <<idle(1)>> >> }

StoreNext ==
    \/ CreditInBounds(2, 1, 1, MaxVoteBalance) /\ add_coins("t1", 2, 1, 1)
    \/ add_coins_entry("t1")
    \/ \E f \in StoreFiles : import_data("t1", f[1], f[2])
    \/ \E g \in VoteGuilds : call_end_vote("t1", g)
    \/ end_vote("t1")
    \/ end_vote_clear("t1")
    \/ \E go \in Orderings(DOMAIN guild_balances),
          uo \in UserOrders(guild_balances),
          co \in Orderings(DOMAIN guild_configs) :
          export_data("t1", go, uo, co)

StoreSpec == Init /\ [][StoreNext]_vars

\* ------------------------------------------------------------- get_balance
\* get_balance (balance.rs lines 4-18): the total over all guilds if asked
\* for or if no guild is given, else get_guild_balance (lines 335-340), whose
\* references are dropped before it returns.
get_balance(t, u, opt_guild_id, is_global, overflow_checks) ==
    IF is_global \/ opt_guild_id = None
    THEN get_total_balance(t, u, overflow_checks)
    ELSE LET g == Unwrap(opt_guild_id)
         IN /\ pc[t] = "idle"
            /\ BalFree(g)
            /\ last' = [NoEvent EXCEPT
                           !.op = "get_guild_balance", !.guild = g, !.user = u,
                           !.res = "Ok",
                           !.val = Some(get_guild_balance_u32(guild_balances,
                                                              g, u))]
            /\ UNCHANGED <<guild_balances, guild_configs, now, ticks, shard,
                           pc, call, cfg_w, cfg_r, bal_w, hist>>

\* The configuration of two guilds and what the read operations return: the
\* setters on both guilds, a vote with its ballots on guild 1, a credit of 1
\* to user 1 in guild 2, and every read operation on every guild and user,
\* by one task.
SetterConfigs == ConfigChoices \cup {DefaultVoteConfig}
GiverRoles == {None, Some(7)}

ConfigNext ==
    \/ \E g \in Guilds :
          \/ \E vc \in SetterConfigs : set_vote_config("t1", g, vc)
          \/ \E role \in GiverRoles : set_giver_role("t1", g, role)
          \/ get_vote_config("t1", g)
          \/ get_vote_status("t1", g)
          \/ get_giver_role("t1", g)
    \/ /\ ~Has(guild_balances, 2)
       /\ \E oc \in BOOLEAN : credit_u32("t1", "add_coins", 2, 1, <<0, 1>>, oc)
    \/ \E g \in VoteGuilds :
          \/ \E u \in Users : start_vote("t1", g, u)
          \/ \E u \in Users, y \in BOOLEAN : cast_vote("t1", g, u, y)
    \/ start_vote_insert("t1")
    \/ start_vote_get_mut("t1")
    \/ \E u \in Users, og \in {None} \cup {Some(g) : g \in Guilds},
          is_global \in BOOLEAN, oc \in BOOLEAN :
          get_balance("t1", u, og, is_global, oc)

ConfigSpec == Init /\ [][ConfigNext]_vars

\* The life of the balance entries of one guild: a load, credits to user 1
\* and debits of user 2, and votes that can reset the guild, by one task.
LifeNext ==
    \/ \E d \in Jumps : Tick(d)
    \/ \E b \in ImportBalances, c \in ImportConfigs :
          last.op = "init" /\ import_data("t1", b, c)
    \/ \E g \in VoteGuilds :
          \/ \E vc \in ConfigChoices : set_vote_config("t1", g, vc)
          \/ \E u \in Users : start_vote("t1", g, u)
          \/ \E u \in Users, y \in BOOLEAN : cast_vote("t1", g, u, y)
          \/ call_end_vote("t1", g)
          \/ CreditInBounds(g, 1, 1, MaxVoteBalance) /\ add_coins("t1", g, 1, 1)
          \/ DebitInBounds(g, 2, 1, MaxVoteBalance) /\ remove_coins("t1", g, 2, 1)
    \/ start_vote_insert("t1")
    \/ start_vote_get_mut("t1")
    \/ end_vote("t1")
    \/ end_vote_clear("t1")
    \/ add_coins_entry("t1")
    \/ remove_coins_entry("t1")

LifeSpec == Init /\ [][LifeNext]_vars

\* The ledger, the configuration and the votes of one guild under a reset
\* of the store, by two tasks.
ResetNext ==
    \/ \E t \in Tasks, g \in VoteGuilds :
          \/ \E vc \in ConfigChoices : set_vote_config(t, g, vc)
          \/ start_vote(t, g, 1)
          \/ \E y \in BOOLEAN : cast_vote(t, g, 2, y)
          \/ call_end_vote(t, g)
          \/ CreditInBounds(g, 1, 1, MaxVoteBalance) /\ add_coins(t, g, 1, 1)
          \/ DebitInBounds(g, 1, 1, MaxVoteBalance) /\ remove_coins(t, g, 1, 1)
    \/ \E t \in Tasks :
          \/ reset(t)
          \/ reset_configs(t)
          \/ start_vote_insert(t)
          \/ start_vote_get_mut(t)
          \/ end_vote(t)
          \/ end_vote_clear(t)
          \/ add_coins_entry(t)
          \/ remove_coins_entry(t)

ResetSpec == Init /\ [][ResetNext]_vars

\* --------------------------------------------------------- expire_votes
\* The guilds of `order` up to the first whose vote is active and past its
\* end (lines 305-309), that guild included.
RECURSIVE up_to_expired(_, _, _)
up_to_expired(configs, order, t_now) ==
    IF order = << >> THEN << >>
    ELSE IF /\ configs[Head(order)].vote_status.active
            /\ vote_expired(configs[Head(order)].vote_status, t_now)
    THEN <<Head(order)>>
    ELSE <<Head(order)>> \o up_to_expired(configs, Tail(order), t_now)

\* expire_votes (lines 299-321).  The iteration of line 301 yields the
\* entries in the order `order` and holds the read lock of the shard of the
\* entry it is at.  At the first vote past its end the call goes into
\* end_vote (line 311) with that lock held; without one it returns the
\* empty list.
expire_votes(t, order) ==
    LET seen == up_to_expired(guild_configs, order, now)
        g == seen[Len(seen)]
    IN /\ pc[t] = "idle"
       /\ order \in Orderings(DOMAIN guild_configs)
       /\ \A i \in 1..Len(seen) : CfgReadFree(seen[i])
       /\ IF seen # << >> /\ guild_configs[g].vote_status.active
                          /\ vote_expired(guild_configs[g].vote_status, now)
          THEN /\ pc' = [pc EXCEPT ![t] = "end_vote"]
               /\ call' = [call EXCEPT ![t] =
                             [NoCall EXCEPT !.op = "expire_votes", !.guild = g,
                                            !.ret_to = "expire_votes"]]
               /\ cfg_r' = [cfg_r EXCEPT ![g] = @ \cup {t}]
               /\ last' = VoteEvent("expire_votes:expired", t, g, "", 0, FALSE)
          ELSE /\ Return(t, VoteEvent("expire_votes", t, 0, "Ok", << >>, FALSE))
               /\ UNCHANGED <<call, cfg_r>>
       /\ UNCHANGED <<guild_balances, guild_configs, now, ticks, shard, cfg_w,
                      bal_w, hist>>

\* The votes of two guilds, set up as in GuildsInit, under expire_votes, by
\* one task.
SweepNext ==
    \/ \E d \in Jumps : Tick(d)
    \/ \E g \in Guilds :
          \/ start_vote("t1", g, 1)
          \/ \E y \in BOOLEAN : cast_vote("t1", g, 2, y)
          \/ call_end_vote("t1", g)
    \/ \E order \in Orderings(DOMAIN guild_configs) : expire_votes("t1", order)
    \/ end_vote("t1")
    \/ end_vote_clear("t1")

SweepSpec == GuildsInit /\ [][SweepNext]_vars

\* The entry of one guild under start_vote, the two setters and cast_vote,
\* by two tasks.
EntryNext ==
    \/ \E t \in Tasks, g \in VoteGuilds :
          \/ \E vc \in ConfigChoices : set_vote_config(t, g, vc)
          \/ set_giver_role(t, g, Some(7))
          \/ \E u \in Users : start_vote(t, g, u)
          \/ \E u \in Users, y \in BOOLEAN : cast_vote(t, g, u, y)
    \/ \E t \in Tasks :
          \/ start_vote_insert(t)
          \/ start_vote_get_mut(t)

EntrySpec == Init /\ [][EntryNext]_vars

\* The vote configuration set where the locks are looked at: a quorum of 2
\* and a majority of 0 percent, under which a vote without a yes ballot
\* passes.
LockConfigs ==
    { [cooldown_hours |-> 1, duration_minutes |-> 1,
       min_votes |-> 2, majority_percentage |-> 0] }

\* The locks of one guild under every operation that takes one: credits and
\* debits of one user, the balance, the leaderboard of the guild (whose
\* sort has nothing to compare with one user) and the export, the two
\* setters, and a vote that is started, voted on and ended before its end
\* time, by two tasks.  The ballots are cast so that a vote that reaches
\* its quorum has no yes ballot: the initiator changes to no, and the other
\* user votes no after that.
LockNext ==
    \/ \E t \in Tasks, g \in VoteGuilds :
          \/ \E vc \in LockConfigs : set_vote_config(t, g, vc)
          \/ set_giver_role(t, g, Some(7))
          \/ start_vote(t, g, 1)
          \/ cast_vote(t, g, 1, FALSE)
          \/ /\ vote_status_or_default(guild_configs, g).yes_votes = << >>
             /\ cast_vote(t, g, 2, FALSE)
          \/ call_end_vote(t, g)
          \/ CreditInBounds(g, 1, 1, MaxVoteBalance) /\ add_coins(t, g, 1, 1)
          \/ DebitInBounds(g, 1, 1, 0) /\ remove_coins(t, g, 1, 1)
          \/ get_balance(t, 1, Some(g), FALSE, FALSE)
          \/ \E order \in Orderings(IF Has(guild_balances, g)
                                    THEN DOMAIN guild_balances[g] ELSE {}) :
                get_guild_top_users(t, g, 1, order)
    \/ \E t \in Tasks :
          \/ \E go \in Orderings(DOMAIN guild_balances),
                uo \in UserOrders(guild_balances),
                co \in Orderings(DOMAIN guild_configs) :
                export_data(t, go, uo, co)
          \/ start_vote_insert(t)
          \/ start_vote_get_mut(t)
          \/ end_vote(t)
          \/ end_vote_clear(t)
          \/ add_coins_entry(t)
          \/ remove_coins_entry(t)

\* A step of a call in progress is taken if it stays possible, and a step
\* that waits for a lock is taken if the lock is free again and again: a
\* task that waits is queued at the lock and woken when it is released.
LockFairness ==
    \A t \in Tasks :
       SF_vars(\/ start_vote_insert(t) \/ start_vote_get_mut(t)
               \/ end_vote(t) \/ end_vote_clear(t)
               \/ add_coins_entry(t) \/ remove_coins_entry(t))

LockSpec == Init /\ [][LockNext]_vars /\ LockFairness

\* ---------------------------------------------------------------- commands
\* The commands of src/src/commands: the data calls a command makes, its
\* reply (ctx.say), its save and its return.  pc[t] names the command and
\* the line task t is at, call[t] holds the command's locals.  Each data
\* call runs here as one step, so a start_vote is not interleaved; the steps
\* of one command interleave with those of the other task's.
Command(cmd, g, u) == [NoCall EXCEPT !.op = cmd, !.guild = g, !.user = u]

\* The command of task t goes on at the point `at` with the locals c.
Goto(t, at, c, res) ==
    /\ pc' = [pc EXCEPT ![t] = at]
    /\ call' = [call EXCEPT ![t] = c]
    /\ last' = [NoEvent EXCEPT !.op = c.op \o ":" \o at, !.guild = c.guild,
                               !.user = c.user, !.res = res]

\* The command with the locals c returns res to the framework.  val tells
\* whether it has changed the store and not saved it since.
Complete(t, c, res) ==
    /\ call' = [call EXCEPT ![t] = NoCall]
    /\ Return(t, [NoEvent EXCEPT !.op = c.op, !.guild = c.guild,
                                 !.user = c.user, !.res = res,
                                 !.val = c.unsaved])

\* The early returns of a command whose author lacks the permission
\* (give.rs lines 65-68, config.rs lines 26-30, vote.rs lines 253-257).
command_denied(t, cmd, g, u) ==
    /\ pc[t] = "idle"
    /\ Complete(t, Command(cmd, g, u), "denied")
    /\ UNCHANGED <<guild_balances, guild_configs, now, ticks, shard, cfg_w,
                   cfg_r, bal_w, hist>>

\* /vote (vote.rs lines 17-113): start_vote or cast_vote, then the reply.
\* A cast_vote on a vote past its end goes into end_vote with config_ref
\* held (data.rs line 641).
vote_command(t, g, u, decision) ==
    LET c == Command("vote", g, u) IN
    /\ pc[t] = "idle"
    /\ CfgWriteFree(g)
    /\ IF decision = "Start"
       THEN LET entry == IF Has(guild_configs, g) THEN guild_configs[g]
                         ELSE start_vote_insert_default(guild_configs, g)[g]
                r == start_vote_checked(entry, u, now)
            IN /\ guild_configs' = Insert(guild_configs, g, r.cfg)
               /\ Goto(t, "say",
                       [c EXCEPT !.unsaved = (guild_configs' # guild_configs)],
                       r.res)
               /\ UNCHANGED cfg_w
       ELSE IF no_active_vote(guild_configs, g)
       THEN /\ Goto(t, "say", c, NoActiveVote)
            /\ UNCHANGED <<guild_configs, cfg_w>>
       ELSE IF vote_expired(guild_configs[g].vote_status, now)
       THEN /\ Goto(t, "end_vote", [c EXCEPT !.ret_to = "cast_vote"], "")
            /\ cfg_w' = [cfg_w EXCEPT ![g] = @ \cup {t}]
            /\ UNCHANGED guild_configs
       ELSE /\ guild_configs' =
                  [guild_configs EXCEPT ![g].vote_status =
                       cast_vote_record(@, u, decision = "Yes")]
            /\ Goto(t, "say", [c EXCEPT !.unsaved = TRUE], "Ok")
            /\ UNCHANGED cfg_w
    /\ UNCHANGED <<guild_balances, now, ticks, shard, cfg_r, bal_w, hist>>

\* /vote_admin status (vote.rs lines 128-231): get_vote_config, then
\* check_vote_expiry, which on a vote past its end goes into end_vote with
\* its Ref held (data.rs line 731), then get_vote_status and the reply.
status_command(t, g, u) ==
    LET c == Command("status", g, u) IN
    /\ pc[t] = "idle"
    /\ CfgReadFree(g)
    /\ IF /\ Has(guild_configs, g)
          /\ guild_configs[g].vote_status.active
          /\ vote_expired(guild_configs[g].vote_status, now)
       THEN /\ Goto(t, "end_vote", [c EXCEPT !.ret_to = "check_vote_expiry"], "")
            /\ cfg_r' = [cfg_r EXCEPT ![g] = @ \cup {t}]
       ELSE /\ Complete(t, c, "Ok")
            /\ UNCHANGED cfg_r
    /\ UNCHANGED <<guild_balances, guild_configs, now, ticks, shard, cfg_w,
                   bal_w, hist>>

\* config_update accepting any percentage.
config_update_unchecked(vote_config, request) ==
    [ok |-> TRUE,
     vote_config |->
        [f \in DOMAIN vote_config |->
            IF request[f] # None THEN Unwrap(request[f]) ELSE vote_config[f]]]

\* vote.rs lines 262-282: the options supplied replace the fields of the
\* vote_config read; a majority_percentage above 100 ends the command.
config_update(vote_config, request) ==
    IF /\ request.majority_percentage # None
       /\ Unwrap(request.majority_percentage) > 100
    THEN [ok |-> FALSE, vote_config |-> vote_config]
    ELSE [ok |-> TRUE,
          vote_config |->
             [f \in DOMAIN vote_config |->
                 IF request[f] # None THEN Unwrap(request[f])
                 ELSE vote_config[f]]]

\* /vote_admin config (vote.rs lines 235-282): get_vote_config (line 260),
\* whose Ref is dropped when it returns, and the update of the local copy.
config_command(t, g, u, request) ==
    LET c == [Command("config", g, u) EXCEPT !.request = request]
        r == config_update(vote_config_or_default(guild_configs, g), request)
    IN /\ pc[t] = "idle"
       /\ CfgReadFree(g)
       /\ IF r.ok
          THEN Goto(t, "set_vote_config", [c EXCEPT !.vote_config = r.vote_config], "")
          ELSE Complete(t, c, "InvalidPercentage")
       /\ UNCHANGED <<guild_balances, guild_configs, now, ticks, shard, cfg_w,
                      cfg_r, bal_w, hist>>

\* vote.rs line 285: set_vote_config with the local copy.
config_set_vote_config(t) ==
    LET g == call[t].guild IN
    /\ pc[t] = "set_vote_config"
    /\ CfgWriteFree(g)
    /\ guild_configs' = set_vote_config_entry(guild_configs, g, call[t].vote_config)
    /\ Goto(t, "say", [call[t] EXCEPT !.unsaved = TRUE], "")
    /\ UNCHANGED <<guild_balances, now, ticks, shard, cfg_w, cfg_r, bal_w, hist>>

\* /config role (config.rs lines 6-50): set_giver_role.
role_command(t, g, u, role) ==
    /\ pc[t] = "idle"
    /\ CfgWriteFree(g)
    /\ guild_configs' = set_giver_role_entry(guild_configs, g, role)
    /\ Goto(t, "save", [Command("role", g, u) EXCEPT !.unsaved = TRUE], "")
    /\ UNCHANGED <<guild_balances, now, ticks, shard, cfg_w, cfg_r, bal_w, hist>>

\* /give (give.rs lines 41-71): give_coins.
give_command(t, g, u, amount) ==
    LET previous == get_guild_balance(guild_balances, g, u)
        m == give_coins_update(guild_balances, g, u, amount, previous)
    IN /\ pc[t] = "idle"
       /\ BalFree(g)
       /\ guild_balances' = Insert(guild_balances, g, m)
       /\ Goto(t, "save",
               [Command("give", g, u) EXCEPT !.amount = amount,
                                             !.prev = previous,
                                             !.unsaved = TRUE], "")
       /\ UNCHANGED <<guild_configs, now, ticks, shard, cfg_w, cfg_r, bal_w, hist>>

\* /flip with a guess and a bet (config.rs lines 111-140): a player with a
\* balance wins a coin through add_coins or loses one through remove_coins.
flip_command(t, g, u, won) ==
    LET c == Command("flip", g, u)
        m == entry_or_insert_guild(guild_balances, g)
    IN /\ pc[t] = "idle"
       /\ BalFree(g)
       /\ IF get_guild_balance(guild_balances, g, u) < 1
          THEN /\ Complete(t, c, "no coins")
               /\ UNCHANGED guild_balances
          ELSE /\ guild_balances' =
                     [m EXCEPT ![g] = IF won THEN add_entry(@, u, 1)
                                      ELSE remove_entry(@, u, 1)]
               /\ Goto(t, "say", [c EXCEPT !.amount = 1, !.unsaved = TRUE], "")
       /\ UNCHANGED <<guild_configs, now, ticks, shard, cfg_w, cfg_r, bal_w, hist>>

\* ctx.say(..).await? before the save (config.rs lines 133-139, vote.rs
\* line 305): a reply that fails ends the command with the error.
say_then_save(t, ok) ==
    /\ pc[t] = "say"
    /\ call[t].op \in {"flip", "config"}
    /\ IF ok THEN Goto(t, "save", call[t], "")
       ELSE Complete(t, call[t], "Err")
    /\ UNCHANGED <<guild_balances, guild_configs, now, ticks, shard, cfg_w,
                   cfg_r, bal_w, hist>>

\* save (data.rs lines 283-296): export_data, whose iterations read every
\* shard of both maps, and the write of the file.
save(t, guild_order, user_order, config_order) ==
    /\ pc[t] = "save"
    /\ \A g \in DOMAIN guild_balances : BalFree(g)
    /\ \A g \in DOMAIN guild_configs : CfgReadFree(g)
    /\ guild_order \in Orderings(DOMAIN guild_balances)
    /\ user_order \in UserOrders(guild_balances)
    /\ config_order \in Orderings(DOMAIN guild_configs)
    /\ pc' = [pc EXCEPT ![t] = "return"]
    /\ call' = [call EXCEPT ![t].unsaved = FALSE]
    /\ last' = [NoEvent EXCEPT
                   !.op = "save", !.guild = call[t].guild,
                   !.val = [balances |-> export_balances(guild_balances,
                                            guild_order, user_order),
                            configs |-> export_configs(guild_configs,
                                                       config_order)]]
    /\ UNCHANGED <<guild_balances, guild_configs, now, ticks, shard, cfg_w,
                   cfg_r, bal_w, hist>>

\* The reply of /vote (vote.rs lines 28-29, 41, 94, 106) and the replies
\* after the save (give.rs line 80, config.rs line 55), and the return.
command_return(t) ==
    /\ \/ pc[t] = "return"
       \/ pc[t] = "say" /\ call[t].op = "vote"
    /\ Complete(t, call[t], "Ok")
    /\ UNCHANGED <<guild_balances, guild_configs, now, ticks, shard, cfg_w,
                   cfg_r, bal_w, hist>>

\* The options of the config requests in the model: one field each, a
\* percentage above 100, and that percentage with another field.
ConfigRequests ==
    { [NoRequest EXCEPT !.min_votes = Some(1)],
      [NoRequest EXCEPT !.majority_percentage = Some(50)],
      [NoRequest EXCEPT !.majority_percentage = Some(101)],
      [NoRequest EXCEPT !.min_votes = Some(1),
                        !.majority_percentage = Some(101)] }

\* Every command on one guild, one command at a time.
CommandNext ==
    \/ \E d \in Jumps : Tick(d)
    \/ \E g \in VoteGuilds :
          \/ command_denied("t1", "give", g, 1)
          \/ \E u \in Users, d \in {"Start", "Yes", "No"} :
                vote_command("t1", g, u, d)
          \/ status_command("t1", g, 1)
          \/ \E r \in ConfigRequests : config_command("t1", g, 1, r)
          \/ \E role \in GiverRoles : role_command("t1", g, 1, role)
          \/ CreditInBounds(g, 1, 1, MaxVoteBalance) /\ give_command("t1", g, 1, 1)
          \/ \E won \in BOOLEAN :
                /\ won => CreditInBounds(g, 1, 1, MaxVoteBalance)
                /\ flip_command("t1", g, 1, won)
    \/ config_set_vote_config("t1")
    \/ \E ok \in BOOLEAN : say_then_save("t1", ok)
    \/ \E go \in Orderings(DOMAIN guild_balances),
          uo \in UserOrders(guild_balances),
          co \in Orderings(DOMAIN guild_configs) :
          save("t1", go, uo, co)
    \/ command_return("t1")

CommandSpec == Init /\ [][CommandNext]_vars

\* Two tasks running /vote_admin config on one guild.
RaceNext ==
    \/ \E t \in Tasks, g \in VoteGuilds, r \in ConfigRequests :
          config_command(t, g, 1, r)
    \/ \E t \in Tasks :
          \/ config_set_vote_config(t)
          \/ \E ok \in BOOLEAN : say_then_save(t, ok)
          \/ \E go \in Orderings(DOMAIN guild_balances),
                uo \in UserOrders(guild_balances),
                co \in Orderings(DOMAIN guild_configs) :
                save(t, go, uo, co)
          \/ command_return(t)

RaceSpec == Init /\ [][RaceNext]_vars

\* ------------------------------------------------------------------ claims
Active(g) == Has(guild_configs, g) /\ guild_configs[g].vote_status.active
ExpiredActive(g) ==
    Active(g) /\ vote_expired(guild_configs[g].vote_status, now)
SomeoneElseHolds(t, g) ==
    \E s \in Tasks \ {t} : s \in cfg_w[g] \cup cfg_r[g]

\* C1: a start_vote that ran beside another start_vote on the same guild
\* which returned success (with no vote ended since) fails with
\* VoteAlreadyActive, so at most one of two concurrent calls succeeds.
C1_ConcurrentStartOneSucceeds ==
    (last.op = "start_vote" /\ last.raced) => last.res = VoteAlreadyActive

\* C2: no credit or debit is lost: every balance is what the calls leave
\* when applied one at a time in the order of their updates, and the
\* new_balance a call returns is the balance right after its own update.
C2_NoLostUpdate ==
    /\ \A g \in Guilds, u \in Users :
          get_guild_balance(guild_balances, g, u) = hist[g].seq[u]
    /\ last.op \in {"add_coins", "remove_coins", "give_coins"}
          => last.val = hist[last.guild].seq[last.user]

\* Two give_coins ran on the same key at once: the second returned more than
\* the balance it had read plus its amount.
C2_Witness ==
    last.op = "give_coins" /\ last.val # last.prev + last.amount

\* C3: right after an end_vote that passed, the guild has no balance other
\* than 0 and its sub-map, if it has one, is empty and still there; and a
\* started vote is ended at most once and its balances cleared at most once.
C3_PassClearsOnce ==
    /\ (last.op = "end_vote" /\ last.res = "Ok" /\ last.passed)
          => /\ \A u \in Users :
                   get_guild_balance(guild_balances, last.guild, u) = 0
             /\ Has(guild_balances, last.guild)
                   => guild_balances[last.guild] = EmptyMap
    /\ \A g \in Guilds :
          /\ hist[g].ends <= 1
          /\ hist[g].clears <= hist[g].ends
          /\ hist[g].clears > 0 => Has(guild_balances, g)

\* A vote passed and the sub-map of its guild was cleared.
C3_Witness ==
    /\ last.op = "end_vote" /\ last.res = "Ok" /\ last.passed
    /\ hist[last.guild].clears = 1
    /\ guild_balances[last.guild] = EmptyMap

\* C4: a cast_vote on an Expired-Active vote completes: whenever such a call
\* is at its end_vote, end_vote can take the guild's entry, or will once
\* another task drops its reference.
C4_ExpiredCastVoteCompletes ==
    \A t \in Tasks :
       (pc[t] = "end_vote" /\ call[t].ret_to = "cast_vote")
          => (ENABLED end_vote(t)) \/ SomeoneElseHolds(t, call[t].guild)

\* C5: check_expiry on an Expired-Active vote completes with end_vote's
\* outcome (whenever such a call is at its end_vote, end_vote can take the
\* guild's entry, or will once another task drops its reference), and in any
\* other state it returns nothing.
C5_CheckExpiryCompletes ==
    /\ \A t \in Tasks :
          (pc[t] = "end_vote" /\ call[t].ret_to = "check_vote_expiry")
             => (ENABLED end_vote(t)) \/ SomeoneElseHolds(t, call[t].guild)
    /\ (last.op = "check_vote_expiry" /\ last.res = "None")
          => ~ExpiredActive(last.guild)

\* C6: once get_vote_status, start_vote, cast_vote, end_vote or check_expiry
\* has returned, the guild's vote is not Expired-Active: the call has ended
\* a vote that was past its end_time.
C6_NextAccessResolvesExpiry ==
    last.op \in {"get_vote_status", "start_vote", "cast_vote", "end_vote",
                 "check_vote_expiry"}
       => ~ExpiredActive(last.guild)

\* C7: the end_time of a vote and the outcome of its end_vote are those the
\* vote_config in force at its start gives, whatever set_config did since.
C7_ConfigChangeSparesActiveVote ==
    (last.op = "end_vote" /\ last.res = "Ok")
       => LET vs == guild_configs[last.guild].vote_status
              vc == Unwrap(hist[last.guild].start_cfg)
              yes == Len(vs.yes_votes)
              total == yes + Len(vs.no_votes)
          IN /\ Unwrap(vs.end_time)
                   = Unwrap(vs.start_time) + Minutes(vc.duration_minutes)
             /\ last.passed = (/\ total >= vc.min_votes
                               /\ vote_passed(yes, total, vc.majority_percentage))

\* C8: no user id is twice in yes_votes and no_votes taken together.
C8_OneBallotPerUser ==
    \A g \in DOMAIN guild_configs :
       LET ballots == guild_configs[g].vote_status.yes_votes
                         \o guild_configs[g].vote_status.no_votes
       IN \A i, j \in 1..Len(ballots) : ballots[i] = ballots[j] => i = j

\* The initiator, an automatic yes, has voted again and is now a no.
C8_Witness ==
    \E g \in DOMAIN guild_configs :
       LET vs == guild_configs[g].vote_status
       IN /\ vs.active
          /\ last.op = "cast_vote" /\ last.res = "Ok"
          /\ \E i \in 1..Len(vs.no_votes) : Some(vs.no_votes[i]) = vs.initiator_id

\* C9: a step of start_vote on a guild whose vote is Active leaves the vote
\* status as it is, and the call returns VoteAlreadyActive.
C9_StartOnActiveFails ==
    [][\A g \in Guilds :
          (Active(g) /\ last'.guild = g
              /\ last'.op \in {"start_vote", "start_vote:insert"})
             => /\ guild_configs'[g].vote_status = guild_configs[g].vote_status
                /\ last'.op = "start_vote" => last'.res = VoteAlreadyActive]_vars

\* C10: with a vote ended at time t and none started since, a start_vote
\* that returns at a time before t + cooldown_hours fails with
\* CooldownInEffect and leaves the vote status as it is, and one that
\* returns at that time or later succeeds.
C10_CooldownGatesStart ==
    [][\A g \in Guilds :
          (last'.op = "start_vote" /\ last'.guild = g
              /\ hist[g].ended_at # None /\ Has(guild_configs, g))
             => IF now < Unwrap(hist[g].ended_at)
                           + Hours(guild_configs[g].vote_config.cooldown_hours)
                THEN /\ last'.res = CooldownInEffect
                     /\ guild_configs'[g].vote_status
                           = guild_configs[g].vote_status
                ELSE ~Active(g) => last'.res = "Ok"]_vars

\* Idle: no entry, or no vote active and no cooldown in effect.
Idle(g) ==
    Has(guild_configs, g) =>
       LET vs == guild_configs[g].vote_status
       IN /\ ~vs.active
          /\ vs.last_vote_time # None =>
                now >= Unwrap(vs.last_vote_time)
                          + Hours(guild_configs[g].vote_config.cooldown_hours)

\* C11: a start_vote on an Idle guild returns Ok with end_time = now +
\* duration_minutes of the guild's vote_config and leaves the vote active
\* from now to end_time with the initiator as its one yes ballot; no step of
\* start_vote changes the guild's giver_role_id or vote_config (an entry the
\* call creates has the defaults).
C11_StartFromIdle ==
    [][\A g \in Guilds :
          (last'.guild = g /\ last'.op \in {"start_vote", "start_vote:insert"})
             => /\ Has(guild_configs, g) =>
                      /\ guild_configs'[g].vote_config
                            = guild_configs[g].vote_config
                      /\ guild_configs'[g].giver_role_id
                            = guild_configs[g].giver_role_id
                /\ ~Has(guild_configs, g) =>
                      /\ guild_configs'[g].vote_config = DefaultVoteConfig
                      /\ guild_configs'[g].giver_role_id = None
                /\ (last'.op = "start_vote" /\ Idle(g)) =>
                      LET vs == guild_configs'[g].vote_status
                          end_time == now + Minutes(guild_configs'[g]
                                             .vote_config.duration_minutes)
                      IN /\ last'.res = "Ok" /\ last'.val = end_time
                         /\ vs.active
                         /\ vs.start_time = Some(now)
                         /\ vs.end_time = Some(end_time)
                         /\ Len(vs.yes_votes) = 1
                         /\ Some(vs.yes_votes[1]) = vs.initiator_id
                         /\ vs.no_votes = << >>]_vars

\* The ballot of user u in vote status vs: "yes", "no" or "none".
InSeq(s, x) == \E i \in 1..Len(s) : s[i] = x
Ballot(vs, u) ==
    IF InSeq(vs.yes_votes, u) THEN "yes"
    ELSE IF InSeq(vs.no_votes, u) THEN "no" ELSE "none"
Total(vs) == Len(vs.yes_votes) + Len(vs.no_votes)

\* C12: a cast_vote(g, u, choice) on an Active vote that is not past its
\* end_time returns Ok; afterwards u is in the chosen list and not in the
\* other, every other user's ballot is as before, and the total is one more
\* for a first ballot and the same for a re-vote.
C12_CastVoteRecordsBallot ==
    [][\A t \in Tasks, g \in Guilds, u \in Users, y \in BOOLEAN :
          (Active(g) /\ ~ExpiredActive(g) /\ cast_vote(t, g, u, y))
             => LET vs == guild_configs[g].vote_status
                    vs2 == guild_configs'[g].vote_status
                IN /\ last'.op = "cast_vote" /\ last'.res = "Ok"
                   /\ InSeq(vs2.yes_votes, u) = y
                   /\ InSeq(vs2.no_votes, u) = ~y
                   /\ \A v \in Users \ {u} : Ballot(vs2, v) = Ballot(vs, v)
                   /\ Total(vs2) = Total(vs)
                         + (IF Ballot(vs, u) = "none" THEN 1 ELSE 0)]_vars

\* A first ballot has raised the total of an active vote to two, one of
\* them a no.
C12_Witness ==
    /\ last.op = "cast_vote" /\ last.res = "Ok"
    /\ Active(last.guild)
    /\ Total(guild_configs[last.guild].vote_status) = 2
    /\ Len(guild_configs[last.guild].vote_status.no_votes) = 1

\* C13: a cast_vote or an end_vote that meets no active vote in its guild (no
\* entry, or an entry whose vote is not active) returns NoActiveVote and
\* leaves guild_configs and guild_balances as they are.
C13_NoActiveVoteNoEffect ==
    [][\A t \in Tasks, g \in Guilds :
          /\ (~Active(g) /\ pc[t] = "idle" /\ last'.guild = g
                /\ \E u \in Users, y \in BOOLEAN : cast_vote(t, g, u, y))
                => /\ last'.op = "cast_vote" /\ last'.res = NoActiveVote
                   /\ UNCHANGED <<guild_configs, guild_balances>>
          /\ (~Active(g) /\ pc[t] = "end_vote" /\ call[t].guild = g
                /\ call[t].ret_to = "caller" /\ end_vote(t))
                => /\ last'.op = "end_vote" /\ last'.res = NoActiveVote
                   /\ UNCHANGED <<guild_configs, guild_balances>>]_vars

\* An end_vote has failed on a guild in its cooldown, whose last vote's
\* ballots are still recorded.
C13_Witness ==
    /\ last.op = "end_vote" /\ last.res = NoActiveVote
    /\ Has(guild_configs, last.guild)
    /\ guild_configs[last.guild].vote_status.last_vote_time # None
    /\ Total(guild_configs[last.guild].vote_status) > 0

\* Cooldown: no vote active and now before last_vote_time + cooldown_hours.
Cooldown(g) ==
    /\ Has(guild_configs, g)
    /\ ~guild_configs[g].vote_status.active
    /\ guild_configs[g].vote_status.last_vote_time # None
    /\ now < Unwrap(guild_configs[g].vote_status.last_vote_time)
                + Hours(guild_configs[g].vote_config.cooldown_hours)

\* The effect of end_vote's critical section on an active vote of guild g:
\* active = false and last_vote_time = now, so that a cast_vote or end_vote
\* that follows meets no active vote.
EndVoteDeactivates(t, g) ==
    /\ ~guild_configs'[g].vote_status.active
    /\ guild_configs'[g].vote_status.last_vote_time = Some(now)
    /\ no_active_vote(guild_configs', g)

\* C14 as stated: every end_vote on an active vote, whatever its outcome,
\* sets active = false and last_vote_time = now and leaves the guild in
\* Cooldown, where a following end_vote or cast_vote meets no active vote.
C14_EndVoteStartsCooldown ==
    [][\A t \in Tasks, g \in Guilds :
          (Active(g) /\ call[t].guild = g /\ end_vote(t))
             => EndVoteDeactivates(t, g) /\ Cooldown(g)']_vars

\* C14 amended: every end_vote on an active vote, whatever its outcome, sets
\* active = false and last_vote_time = now, so a following end_vote or
\* cast_vote meets no active vote; the guild is in Cooldown afterwards if
\* cooldown_hours > 0 and Idle if cooldown_hours = 0.
C14_EndVoteDeactivates ==
    [][\A t \in Tasks, g \in Guilds :
          (Active(g) /\ call[t].guild = g /\ end_vote(t))
             => /\ EndVoteDeactivates(t, g)
                /\ IF guild_configs[g].vote_config.cooldown_hours > 0
                   THEN Cooldown(g)' ELSE Idle(g)']_vars

\* A vote with its quorum has failed by majority and its guild is in
\* Cooldown.
C14_Witness ==
    /\ last.op = "end_vote" /\ last.res = "Ok" /\ ~last.passed
    /\ Cooldown(last.guild)
    /\ Total(guild_configs[last.guild].vote_status)
          >= guild_configs[last.guild].vote_config.min_votes

\* C15: an end_vote on an active vote whose total is below min_votes returns
\* Ok(false), whatever the share of yes ballots, and changes no balance.
C15_BelowQuorumFails ==
    [][\A t \in Tasks, g \in Guilds :
          (/\ Active(g)
           /\ Total(guild_configs[g].vote_status)
                 < guild_configs[g].vote_config.min_votes
           /\ call[t].guild = g /\ end_vote(t))
             => /\ last'.op = "end_vote" /\ last'.res = "Ok" /\ ~last'.passed
                /\ pc'[t] = "idle"
                /\ UNCHANGED guild_balances]_vars

\* A vote with yes ballots only and fewer than min_votes of them has
\* failed, and the balance of its guild is still there.
C15_Witness ==
    /\ last.op = "end_vote" /\ last.res = "Ok" /\ ~last.passed
    /\ LET c == guild_configs[last.guild]
       IN /\ c.vote_status.no_votes = << >>
          /\ Len(c.vote_status.yes_votes) > 0
          /\ Len(c.vote_status.yes_votes) < c.vote_config.min_votes
    /\ get_guild_balance(guild_balances, last.guild, 1) > 0

\* C16: an end_vote on a vote with total >= min_votes passes if and only if
\* 100 * |yes_votes| >= majority_percentage * total, so a share of yes
\* ballots equal to the threshold passes.
C16_ExactMajority ==
    (last.op = "end_vote" /\ last.res = "Ok")
       => LET c == guild_configs[last.guild]
              yes == Len(c.vote_status.yes_votes)
              total == Total(c.vote_status)
          IN total >= c.vote_config.min_votes
                => last.passed
                      = (100 * yes >= c.vote_config.majority_percentage * total)

\* C17: in every state and for every guild, a vote that is active has its
\* start_time and its end_time set, and start_time <= end_time.
C17_ActiveHasTimes ==
    \A g \in DOMAIN guild_configs :
       LET vs == guild_configs[g].vote_status
       IN vs.active => /\ vs.start_time # None
                       /\ vs.end_time # None
                       /\ Unwrap(vs.start_time) <= Unwrap(vs.end_time)

\* What the steps of the vote machine leave in last.op.
VoteOps ==
    {"start_vote", "start_vote:none", "start_vote:insert",
     "cast_vote", "cast_vote:expired",
     "check_vote_expiry", "check_vote_expiry:expired",
     "end_vote", "end_vote:call", "end_vote:passed"}

ShardHolders(g) ==
    UNION {cfg_w[h] \cup cfg_r[h] : h \in SameShard(g)}

\* C19: a step of a vote operation on guild A leaves the entry and the
\* balances of every other guild as they are, and what a vote operation on A
\* does is not a matter of the other guilds: when no task holds a reference
\* to A's own entry, an idle task can run a vote operation on A, at once or
\* as soon as a task that holds a reference into the shard has taken its
\* next step.
C19_GuildsIndependent ==
    /\ [][\A A \in Guilds :
             (last'.op \in VoteOps /\ last'.guild = A)
                => \A B \in Guilds \ {A} :
                      /\ Get(guild_configs', B) = Get(guild_configs, B)
                      /\ Get(guild_balances', B) = Get(guild_balances, B)]_vars
    /\ [](\A A \in Guilds, t \in Tasks :
             (pc[t] = "idle" /\ cfg_w[A] \cup cfg_r[A] = {})
                => \/ ENABLED start_vote(t, A, 1)
                   \/ \E s \in ShardHolders(A) :
                         (ENABLED end_vote(s)) \/ (ENABLED end_vote_clear(s)))

Max0(n) == IF n > 0 THEN n ELSE 0

C21_DebitFloorsAtZero ==
    /\ [][\A t \in Tasks :
             remove_coins_entry(t)
                => LET g == call[t].guild
                       u == call[t].user
                       old == get_guild_balance(guild_balances, g, u)
                   IN /\ Has(guild_balances', g) /\ Has(guild_balances'[g], u)
                      /\ guild_balances'[g][u] = Max0(old - call[t].amount)
                      /\ last'.op = "remove_coins" /\ last'.res = "Ok"
                      /\ last'.val = Max0(old - call[t].amount)]_vars
    /\ [](/\ \A t \in Tasks :
                pc[t] = "remove_coins_entry" => ENABLED remove_coins_entry(t)
          /\ \A g \in DOMAIN guild_balances : \A u \in DOMAIN guild_balances[g] :
                guild_balances[g][u] >= 0)

\* A debit larger than the balance it met, which was not 0, has returned 0.
C21_Witness ==
    /\ last.op = "remove_coins" /\ last.res = "Ok"
    /\ last.val = 0
    /\ last.prev > 0 /\ last.amount > last.prev
    /\ hist[last.guild].seq[last.user] = 0

\* The u32 nearest to a number: u32::MAX for a number above it.
Saturate(n) == IF AboveU32(n) THEN U32_MAX ELSE n

\* C22: add_coins and give_coins never fail: they create the guild and user
\* entries if absent, and store and return old + amount, or u32::MAX when
\* old + amount is above it.
C22_CreditSaturates ==
    [][\A g \in Guilds, u \in Users, a \in WordAmounts, oc \in BOOLEAN,
          op \in {"add_coins", "give_coins"} :
          credit_u32("t1", op, g, u, a, oc)
             => LET old == get_guild_balance_u32(guild_balances, g, u)
                    want == Saturate(WideSum(old, a))
                IN /\ last'.res = "Ok"
                   /\ last'.val = Some(want)
                   /\ Has(guild_balances', g) /\ Has(guild_balances'[g], u)
                   /\ guild_balances'[g][u] = want]_vars

\* The sum, as a number, of the balances of user u in the guilds of the set.
RECURSIVE ExactTotal(_, _, _)
ExactTotal(balances, guilds, u) ==
    IF guilds = {} THEN U32_ZERO
    ELSE LET g == CHOOSE x \in guilds : TRUE
         IN WideSum(balances[g][u], ExactTotal(balances, guilds \ {g}, u))

\* C23: get_total_balance(user) returns the sum of the user's balances over
\* all guilds that have an entry for the user, whatever credits were made
\* before in whichever guilds; for a user with no entry it returns 0.
C23_TotalIsSum ==
    last.op = "get_total_balance"
       => /\ last.res = "Ok"
          /\ last.val =
                Some(ExactTotal(guild_balances,
                                {g \in DOMAIN guild_balances :
                                    Has(guild_balances[g], last.user)},
                                last.user))

\* s holds no user twice; s is in non-increasing order of balance.
DistinctUsers(s) == \A i, j \in 1..Len(s) : i # j => s[i][1] # s[j][1]
NonIncreasing(s) == \A i \in 1..Len(s) - 1 : WideLe(s[i + 1][2], s[i][2])
Min(a, b) == IF a < b THEN a ELSE b

\* C24: get_guild_top_users(guild, n) returns distinct (user, balance) pairs
\* of that guild, each balance the user's current one, in non-increasing
\* order of balance, min(n, number of entries of the guild) of them; every
\* user left out has a balance <= the smallest one returned; an unknown guild
\* gives the empty sequence.
C24_TopUsers ==
    last.op = "get_guild_top_users"
       => LET r == last.val
              g == last.guild
              returned == {r[i][1] : i \in 1..Len(r)}
          IN IF ~Has(guild_balances, g) THEN r = << >>
             ELSE /\ DistinctUsers(r)
                  /\ \A i \in 1..Len(r) :
                        /\ Has(guild_balances[g], r[i][1])
                        /\ r[i][2] = guild_balances[g][r[i][1]]
                  /\ NonIncreasing(r)
                  /\ Len(r) = Min(last.amount,
                                  Cardinality(DOMAIN guild_balances[g]))
                  /\ \A u \in DOMAIN guild_balances[g] \ returned :
                        \A i \in 1..Len(r) :
                           WideLe(guild_balances[g][u], r[i][2])

\* The two best of three users were asked for and returned, the first with
\* a larger balance than the second, which is at a tie with the user left
\* out.
C24_Witness ==
    /\ last.op = "get_guild_top_users" /\ last.amount = 2
    /\ Len(last.val) = 2
    /\ WideLt(last.val[2][2], last.val[1][2])
    /\ \E u \in DOMAIN guild_balances[last.guild] :
          /\ u \notin {last.val[1][1], last.val[2][1]}
          /\ guild_balances[last.guild][u] = last.val[2][2]

\* The users with an entry in some guild, and the sum, as a number, of the
\* balances of one of them.
UsersWithEntry ==
    UNION {DOMAIN guild_balances[g] : g \in DOMAIN guild_balances}
TotalOf(u) ==
    ExactTotal(guild_balances,
               {g \in DOMAIN guild_balances : Has(guild_balances[g], u)}, u)

\* C25: get_global_top_users(n) returns one pair (user, total) for each of
\* the min(n, number of users) users with the largest totals, the total being
\* the sum of the user's balances over all guilds, in non-increasing order of
\* total, no user twice.
C25_GlobalTopUsers ==
    last.op = "get_global_top_users"
       => LET r == last.val
              returned == {r[i][1] : i \in 1..Len(r)}
          IN /\ last.res = "Ok"
             /\ DistinctUsers(r)
             /\ \A i \in 1..Len(r) :
                   r[i][1] \in UsersWithEntry /\ r[i][2] = TotalOf(r[i][1])
             /\ NonIncreasing(r)
             /\ Len(r) = Min(last.amount, Cardinality(UsersWithEntry))
             /\ \A u \in UsersWithEntry \ returned :
                   \A i \in 1..Len(r) : WideLe(TotalOf(u), r[i][2])

\* The sequences s and t hold the same records the same number of times.
SameRecords(s, t) ==
    /\ Len(s) = Len(t)
    /\ \A x \in {s[i] : i \in 1..Len(s)} \cup {t[i] : i \in 1..Len(t)} :
          Cardinality({i \in 1..Len(s) : s[i] = x})
             = Cardinality({i \in 1..Len(t) : t[i] = x})

\* C26: the records of an export_data, imported into a new store and
\* exported again, in whatever order the second export iterates, are the
\* same multiset of balance records and the same multiset of config records
\* (giver_role_id, vote_config and vote_status included).
C26_RoundTrip ==
    last.op = "export_data"
       => LET first == last.val
              balances == import_balances(EmptyMap, first.balances)
              configs == import_configs(EmptyMap, first.configs)
          IN /\ \A go \in Orderings(DOMAIN balances),
                   uo \in UserOrders(balances) :
                   SameRecords(export_balances(balances, go, uo),
                               first.balances)
             /\ \A co \in Orderings(DOMAIN configs) :
                   SameRecords(export_configs(configs, co), first.configs)

\* A store was exported that holds two balances in one guild, a guild with
\* an empty sub-map, which the new store will not have, and a config with a
\* giver role and the ballots of a vote.
C26_Witness ==
    /\ last.op = "export_data"
    /\ \E g \in DOMAIN guild_balances : DOMAIN guild_balances[g] = {}
    /\ Len(last.val.balances) = 2
    /\ \E i \in 1..Len(last.val.configs) :
          /\ last.val.configs[i].giver_role_id # None
          /\ last.val.configs[i].vote_status.yes_votes # << >>

\* The last of the records of recs that names the key k, if one does; key
\* gives the key a record names.
NamedBy(recs, key(_), k) == \E i \in 1..Len(recs) : key(recs[i]) = k
LastNaming(recs, key(_), k) ==
    recs[CHOOSE i \in 1..Len(recs) :
            /\ key(recs[i]) = k
            /\ \A j \in i + 1..Len(recs) : key(recs[j]) # k]
BalanceKey(r) == <<r.guild_id, r.user_id>>
ConfigKey(r) == r.guild_id

\* C27: import_data upserts: a (guild, user) balance or a guild config that
\* no imported record names is after the import what it was before, absent
\* if it was absent, and a key that is named holds the value of the last
\* record naming it, a config entry being that record as a whole.
C27_ImportUpserts ==
    [][\A f \in StoreFiles :
          import_data("t1", f[1], f[2])
             => /\ \A g \in Guilds, u \in Users :
                      IF NamedBy(f[1], BalanceKey, <<g, u>>)
                      THEN /\ Has(guild_balances', g) /\ Has(guild_balances'[g], u)
                           /\ guild_balances'[g][u]
                                 = LastNaming(f[1], BalanceKey, <<g, u>>).balance
                      ELSE /\ (Has(guild_balances', g) /\ Has(guild_balances'[g], u))
                                 = (Has(guild_balances, g) /\ Has(guild_balances[g], u))
                           /\ get_guild_balance(guild_balances', g, u)
                                 = get_guild_balance(guild_balances, g, u)
                /\ \A g \in Guilds :
                      IF NamedBy(f[2], ConfigKey, g)
                      THEN /\ Has(guild_configs', g)
                           /\ guild_configs'[g] = LastNaming(f[2], ConfigKey, g)
                      ELSE Get(guild_configs', g) = Get(guild_configs, g)]_vars

\* An import has run on a store with balances and configs of both guilds
\* that came from a credit and from three different files, one of which
\* names a balance twice and another a config twice.
C27_Witness ==
    /\ last.op = "import_data"
    /\ get_guild_balance(guild_balances, 1, 1) = 1
    /\ get_guild_balance(guild_balances, 1, 2) = 1
    /\ get_guild_balance(guild_balances, 2, 1) = 1
    /\ Has(guild_configs, 1) /\ guild_configs[1].giver_role_id = Some(7)
    /\ Has(guild_configs, 2) /\ guild_configs[2].giver_role_id = Some(7)

\* C28: set_vote_config replaces the vote_config of an existing entry and
\* leaves its giver_role_id and vote_status, an active vote and its ballots
\* included, as they are; set_giver_role replaces giver_role_id and leaves
\* vote_config and vote_status; on a guild without an entry each creates one
\* whose other fields are the defaults; no other guild's entry changes.
C28_SettersKeepOtherFields ==
    [][\A g \in Guilds :
          /\ \A vc \in SetterConfigs :
                (last'.guild = g /\ set_vote_config("t1", g, vc))
                   => /\ Has(guild_configs', g)
                      /\ guild_configs'[g].guild_id = g
                      /\ guild_configs'[g].vote_config = vc
                      /\ guild_configs'[g].giver_role_id
                            = IF Has(guild_configs, g)
                              THEN guild_configs[g].giver_role_id ELSE None
                      /\ guild_configs'[g].vote_status
                            = IF Has(guild_configs, g)
                              THEN guild_configs[g].vote_status
                              ELSE DefaultVoteStatus
                      /\ \A h \in Guilds \ {g} :
                            Get(guild_configs', h) = Get(guild_configs, h)
          /\ \A role \in GiverRoles :
                (last'.guild = g /\ set_giver_role("t1", g, role))
                   => /\ Has(guild_configs', g)
                      /\ guild_configs'[g].guild_id = g
                      /\ guild_configs'[g].giver_role_id = role
                      /\ guild_configs'[g].vote_config
                            = IF Has(guild_configs, g)
                              THEN guild_configs[g].vote_config
                              ELSE DefaultVoteConfig
                      /\ guild_configs'[g].vote_status
                            = IF Has(guild_configs, g)
                              THEN guild_configs[g].vote_status
                              ELSE DefaultVoteStatus
                      /\ \A h \in Guilds \ {g} :
                            Get(guild_configs', h) = Get(guild_configs, h)]_vars

\* set_vote_config has run on a guild whose vote is active with a yes and a
\* no ballot and whose giver role is set: the vote is still active, the
\* ballots and the role are still there, and the vote_config is another one
\* than the vote was started under.
C28_Witness ==
    /\ last.op = "set_vote_config"
    /\ Has(guild_configs, last.guild)
    /\ guild_configs[last.guild].vote_status.active
    /\ guild_configs[last.guild].vote_status.yes_votes # << >>
    /\ guild_configs[last.guild].vote_status.no_votes # << >>
    /\ guild_configs[last.guild].giver_role_id = Some(7)
    /\ Some(guild_configs[last.guild].vote_config)
          # hist[last.guild].start_cfg

\* C29: the read operations create no entry.  On a guild without a config
\* entry get_vote_config returns {24, 30, 10, 70}, get_vote_status a status
\* that is not active and get_giver_role None; get_guild_balance returns 0
\* for a user without an entry in the guild, and get_total_balance 0 for a
\* user without an entry in any guild; after every read guild_configs and
\* guild_balances are what they were before.
C29_ReadsCreateNothing ==
    [][/\ last'.op \in {"get_vote_config", "get_vote_status", "get_giver_role",
                        "get_guild_balance", "get_total_balance"}
             => UNCHANGED <<guild_configs, guild_balances>>
       /\ \A g \in Guilds :
             /\ (/\ last'.op = "get_vote_config" /\ last'.guild = g
                 /\ ~Has(guild_configs, g)
                 /\ get_vote_config("t1", g))
                   => last'.val = [cooldown_hours |-> 24, duration_minutes |-> 30,
                                   min_votes |-> 10, majority_percentage |-> 70]
             /\ (/\ last'.op = "get_vote_status" /\ last'.guild = g
                 /\ ~Has(guild_configs, g)
                 /\ get_vote_status("t1", g))
                   => /\ ~last'.val.active
                      /\ last'.val = DefaultVoteStatus
             /\ (/\ last'.op = "get_giver_role" /\ last'.guild = g
                 /\ ~Has(guild_configs, g)
                 /\ get_giver_role("t1", g))
                   => last'.val = None
             /\ \A u \in Users :
                   (/\ last'.op = "get_guild_balance"
                    /\ last'.guild = g /\ last'.user = u
                    /\ ~(Has(guild_balances, g) /\ Has(guild_balances[g], u))
                    /\ get_balance("t1", u, Some(g), FALSE, FALSE))
                      => last'.res = "Ok" /\ last'.val = Some(U32_ZERO)
       /\ \A u \in Users :
             (/\ last'.op = "get_total_balance" /\ last'.user = u
              /\ \A g \in DOMAIN guild_balances : ~Has(guild_balances[g], u)
              /\ \E og \in {None} \cup {Some(g) : g \in Guilds},
                    is_global \in BOOLEAN, oc \in BOOLEAN :
                    /\ is_global \/ og = None
                    /\ get_balance("t1", u, og, is_global, oc))
                => last'.res = "Ok" /\ last'.val = Some(U32_ZERO)]_vars

\* get_vote_config has returned the defaults for a guild that has no entry,
\* and still has none, while the other guild has an entry with another
\* vote_config and a balance.
C29_Witness ==
    /\ last.op = "get_vote_config"
    /\ ~Has(guild_configs, last.guild)
    /\ last.val = DefaultVoteConfig
    /\ \E h \in Guilds :
          /\ Has(guild_configs, h)
          /\ guild_configs[h].vote_config # DefaultVoteConfig
          /\ Has(guild_balances, h)

\* The balance entry of user u in guild g exists.
HasEntry(balances, g, u) == Has(balances, g) /\ Has(balances[g], u)

\* What a step does to the balance entries when only the operations of
\* `makers` create a guild's sub-map and only those of `fillers` a user's
\* entry: a sub-map, once there, stays, and a user's entry goes only when a
\* vote that passed empties the sub-map of its guild.
EntriesLive(makers, fillers) ==
    /\ \A g \in Guilds :
          /\ (~Has(guild_balances, g) /\ Has(guild_balances', g))
                => last'.op \in makers
          /\ Has(guild_balances, g) => Has(guild_balances', g)
    /\ \A g \in Guilds, u \in Users :
          /\ (~HasEntry(guild_balances, g, u) /\ HasEntry(guild_balances', g, u))
                => last'.op \in fillers
          /\ (HasEntry(guild_balances, g, u) /\ ~HasEntry(guild_balances', g, u))
                => /\ end_vote_clear("t1")
                   /\ call["t1"].guild = g
                   /\ last'.passed
                   /\ guild_balances'[g] = EmptyMap

\* C30 as stated: a guild's sub-map and its user entries come into existence
\* only through a credit or an import, and a user entry goes only when a
\* vote that passed empties the sub-map, whose key stays.
C30_CreatedByCreditOrImport ==
    [][EntriesLive({"add_coins:lock", "give_coins", "import_data"},
                   {"add_coins", "give_coins", "import_data"})]_vars

\* C30 amended: a debit creates the guild's sub-map and the user's entry,
\* with balance 0, as a credit does; the rest is as stated.
C30_CreatedByCreditDebitOrImport ==
    [][EntriesLive({"add_coins:lock", "remove_coins:lock", "give_coins",
                    "import_data"},
                   {"add_coins", "remove_coins", "give_coins",
                    "import_data"})]_vars

\* A vote has reset the guild, whose key stayed, and a debit of a user
\* without an entry has then created the only entry there is, with balance 0.
C30_Witness ==
    /\ last.op = "remove_coins" /\ last.val = 0
    /\ hist[last.guild].clears = 1
    /\ DOMAIN guild_balances[last.guild] = {last.user}
    /\ guild_balances[last.guild][last.user] = 0

\* The commands of the model.
CommandNames == {"vote", "status", "give", "flip", "role", "config"}

\* C31: every command that changes a balance or a guild configuration
\* saves after the change and before it completes: no command returns
\* having changed the store without a save since.
C31_SaveAfterMutation ==
    last.op \in CommandNames => last.val = FALSE

\* The request asks for a majority_percentage above 100.
AboveHundred(request) ==
    /\ request.majority_percentage # None
    /\ Unwrap(request.majority_percentage) > 100

\* C32: a config command whose majority_percentage is above 100 returns
\* InvalidPercentage at once and leaves guild_configs as it is, whatever
\* other options it was given; a step that changes guild_configs is the
\* set_vote_config of a command whose request is not above 100; and no
\* stored vote_config has a majority_percentage above 100.
C32_InvalidPercentageRejected ==
    /\ [][/\ \A t \in Tasks, g \in VoteGuilds, r \in ConfigRequests :
               (AboveHundred(r) /\ config_command(t, g, 1, r))
                  => /\ pc'[t] = "idle"
                     /\ last'.op = "config"
                     /\ last'.res = "InvalidPercentage"
                     /\ guild_configs' = guild_configs
          /\ guild_configs' # guild_configs
               => \E t \in Tasks :
                     /\ pc[t] = "set_vote_config" /\ pc'[t] = "say"
                     /\ ~AboveHundred(call[t].request)]_vars
    /\ [](\A g \in DOMAIN guild_configs :
             guild_configs[g].vote_config.majority_percentage <= 100)

\* A request above 100 was rejected in a guild whose stored vote_config has
\* the percentage of an accepted request and the default min_votes, though
\* every request in the model that leaves the percentage alone, and one of
\* those above 100, asks for min_votes = 1: the other task's accepted
\* command is still before its set_vote_config.
C32_Witness ==
    /\ last.op = "config" /\ last.res = "InvalidPercentage"
    /\ Has(guild_configs, 1)
    /\ guild_configs[1].vote_config.majority_percentage = 50
    /\ guild_configs[1].vote_config.min_votes = 10
    /\ \E t \in Tasks : /\ pc[t] = "set_vote_config"
                        /\ call[t].request.min_votes = Some(1)

\* C33: start_vote, cast_vote, end_vote and check_vote_expiry return a
\* success value or one of NoActiveVote, VoteAlreadyActive, CooldownInEffect
\* and VoteEnded, and none of them panics; a credit or a debit returns a
\* balance, never an error.
C33_RecoverableErrorsOnly ==
    /\ last.op \in {"start_vote", "cast_vote", "end_vote", "check_vote_expiry"}
          => last.res \in {"Ok", "Some", "None", NoActiveVote,
                           VoteAlreadyActive, CooldownInEffect, VoteEnded}
    /\ last.op \in {"add_coins", "remove_coins", "give_coins"}
          => last.res = "Ok"

\* C34: within one guild a credit or a debit of one user does not wait for
\* one in progress on another user: while a task is inside add_coins or
\* remove_coins on (g, u2), an idle task can enter add_coins and
\* remove_coins on (g, u1) for every other user u1.
C34_OtherUsersDoNotWait ==
    \A t \in Tasks, s \in Tasks, u1 \in Users :
       (/\ pc[t] \in {"add_coins_entry", "remove_coins_entry"}
        /\ pc[s] = "idle"
        /\ u1 # call[t].user)
          => /\ ENABLED add_coins(s, call[t].guild, u1, 1)
             /\ ENABLED remove_coins(s, call[t].guild, u1, 1)

\* C35: expire_votes returns after ending every vote that is active and
\* past its end: whenever the call is at the end_vote of such a vote,
\* end_vote can take the guild's entry, or will once another task drops its
\* reference; and once the call has returned no vote is left active and
\* past its end.
C35_ExpireVotesEndsExpired ==
    /\ \A t \in Tasks :
          (pc[t] = "end_vote" /\ call[t].ret_to = "expire_votes")
             => (ENABLED end_vote(t)) \/ SomeoneElseHolds(t, call[t].guild)
    /\ last.op = "expire_votes" => \A g \in Guilds : ~ExpiredActive(g)

\* C36: a start_vote on a guild without an entry discards nothing that a
\* concurrent call wrote: if the guild has an entry by the time the call
\* inserts its own, the giver_role_id, the vote_config and the ballots of
\* that entry are still there afterwards.
C36_StartVoteKeepsConcurrentWrites ==
    [][\A t \in Tasks :
          (/\ pc[t] = "start_vote_insert"
           /\ pc'[t] = "start_vote_get_mut"
           /\ Has(guild_configs, call[t].guild))
             => LET old == guild_configs[call[t].guild]
                    new == guild_configs'[call[t].guild]
                IN /\ new.giver_role_id = old.giver_role_id
                   /\ new.vote_config = old.vote_config
                   /\ new.vote_status.yes_votes = old.vote_status.yes_votes
                   /\ new.vote_status.no_votes = old.vote_status.no_votes]_vars

\* The next step of the call that task t is in.
StepOf(t) ==
    \/ start_vote_insert(t) \/ start_vote_get_mut(t)
    \/ end_vote(t) \/ end_vote_clear(t)
    \/ add_coins_entry(t) \/ remove_coins_entry(t)

\* C37: no interleaving of these operations deadlocks.  A task that holds
\* a lock of guild_balances between two steps is in a credit or a debit
\* and waits for nothing; a task that holds a lock of guild_configs between
\* two steps is in end_vote, on its way to the balances; in every state the
\* call of some task can go on if any call is in progress; and every call
\* returns.
C37_NoDeadlock ==
    /\ [](\A t \in Tasks, g \in Guilds :
             /\ t \in bal_w[g]
                   => /\ pc[t] \in {"add_coins_entry", "remove_coins_entry"}
                      /\ ENABLED StepOf(t)
             /\ t \in cfg_w[g] \cup cfg_r[g] => pc[t] = "end_vote_clear")
    /\ []((\E t \in Tasks : pc[t] # "idle")
             => \E t \in Tasks : ENABLED StepOf(t))
    /\ \A t \in Tasks : (pc[t] # "idle") ~> (pc[t] = "idle")

\* end_vote holds the guild's configuration entry and waits for the
\* guild's sub-map, which a credit in progress holds.
C37_Witness ==
    \E t \in Tasks, s \in Tasks :
       /\ pc[t] = "end_vote_clear" /\ t \in cfg_w[call[t].guild]
       /\ pc[s] = "add_coins_entry" /\ s \in bal_w[call[t].guild]
       /\ ~ENABLED end_vote_clear(t)

\* C38: in every state reached through start_vote, cast_vote and end_vote,
\* an active vote has an initiator whose ballot is in one of the two lists,
\* so the lists hold at least one ballot together and the division of
\* end_vote has a denominator of at least 1.
C38_ActiveVoteHasBallot ==
    \A g \in Guilds :
       Active(g)
          => LET vs == guild_configs[g].vote_status
             IN /\ vs.initiator_id # None
                /\ Ballot(vs, Unwrap(vs.initiator_id)) # "none"
                /\ Total(vs) >= 1

\* The initiator changed to no: the only ballot of the active vote is in
\* no_votes.
C38_Witness ==
    /\ last.op = "cast_vote" /\ last.res = "Ok"
    /\ Active(last.guild)
    /\ LET vs == guild_configs[last.guild].vote_status
       IN /\ vs.yes_votes = << >>
          /\ vs.no_votes = <<Unwrap(vs.initiator_id)>>

\* C39: the balance_changed event of a credit or a debit carries as previous
\* the balance of the (guild, user) right before the call's own update and
\* as new the balance right after it, also beside another call on the same
\* key; for a credit, new minus previous is the amount.
C39_EventCarriesOwnUpdate ==
    [][\A t \in Tasks :
          (/\ pc[t] \in {"add_coins_entry", "remove_coins_entry",
                         "give_coins_entry"}
           /\ pc'[t] = "idle")
             => LET g == call[t].guild
                    u == call[t].user
                IN /\ last'.prev = get_guild_balance(guild_balances, g, u)
                   /\ last'.val = get_guild_balance(guild_balances', g, u)
                   /\ last'.op \in {"add_coins", "give_coins"}
                         => last'.val - last'.prev = last'.amount]_vars

\* Task t is in a config command that has made its set_vote_config.
ConfigWritten(t) ==
    /\ call[t].op = "config"
    /\ pc[t] \in {"say", "save", "return"}

\* C40: two config commands for one guild that are in progress together,
\* neither supplying a field the other supplies, both take effect: once
\* both have made their set_vote_config, the stored vote_config has every
\* field that either of them supplied at the value supplied.
C40_ConcurrentConfigsBothTakeEffect ==
    \A t \in Tasks : \A s \in Tasks \ {t} :
       (/\ ConfigWritten(t) /\ ConfigWritten(s)
        /\ call[t].guild = call[s].guild
        /\ \A f \in DOMAIN NoRequest :
              call[t].request[f] = None \/ call[s].request[f] = None)
          => \A f \in DOMAIN NoRequest :
                call[t].request[f] # None
                   => vote_config_or_default(guild_configs, call[t].guild)[f]
                         = Unwrap(call[t].request[f])

====
